---- MODULE Spec2Model ----
(***************************************************************************)
(* Shrdlite planner: the generic A* search (aStarSearch), the blocks-world *)
(* planning graph (PGraph / PNode), the goal test, the heuristic, the      *)
(* physics check and the Planner driver.                                   *)
(*                                                                         *)
(* JavaScript arrays are objects with identity: a PNode built with         *)
(* `new PNode(node.stacks, ...)` shares the stacks array of its origin.    *)
(* The model therefore keeps arrays in a memory `mem` (a sequence of       *)
(* arrays, an array's address is its index) and a PNode's `stacks` field   *)
(* is the address of an array of column addresses.  The arm index is       *)
(* 0-based as in the source; TLA+ sequences are 1-based, so column `arm`   *)
(* is element arm + 1.                                                     *)
(***************************************************************************)
EXTENDS Integers, Sequences, FiniteSets, TLC

VARIABLES
    container,  \* which model of collections.PriorityQueue the search runs on
    graph,      \* the graph searched: a PGraph (objects) with goal formula, or an abstract graph
    mem,        \* memory of array objects: address -> array contents
    world,      \* the WorldState given to Planner.plan
    start,      \* aStarSearch: start node
    queue,      \* aStarSearch: the PriorityQueue's entries (heap array, or insertion order)
    costs,      \* aStarSearch: Dictionary node key -> best known cost
    paths,      \* aStarSearch: Dictionary node key -> predecessor node
    node,       \* aStarSearch: the `node` variable; in the edge walk, the current node
    pc,         \* control position
    result,     \* aStarSearch's return value
    input,      \* the value of the WorldState when Planner.plan was called
    interps,    \* Planner.plan: the interpretations to plan for
    idx,        \* Planner.plan: position of the forEach loop in interps
    plans,      \* Planner.plan: the `plans` array
    errors,     \* Planner.plan: the `errors` array
    outcome,    \* Planner.plan, Interpreter.interpret: what the call returned or threw
    block,      \* Interpreter.interpret: the module block of the file whose interpret runs
    parses,     \* Interpreter.interpret: the parses to interpret
    currentState,    \* Interpreter.interpret: the WorldState given to it
    interpretations, \* Interpreter.interpret: the `interpretations` array
    checked,    \* the arguments of a call of checkPhysics
    legal       \* what that call of checkPhysics returned

searchVars == <<start, queue, costs, paths, node, result>>

planVars == <<world, input, interps, idx, plans, errors, outcome>>

interpVars == <<block, parses, currentState, interpretations, checked, legal>>

vars == <<container, graph, mem, pc, searchVars, planVars, interpVars>>

(***************************************************************************)
(* Bounds of the model.                                                    *)
(***************************************************************************)
NumCols == 3

NULL == "null"

\* the variables of the interpreter while no interpreter call is modelled
NoInterpreter ==
    /\ block = NULL /\ parses = << >> /\ currentState = NULL /\ interpretations = << >>
    /\ checked = NULL /\ legal = NULL

UNDEFINED == [form |-> "undefined", size |-> "undefined", color |-> "undefined"]

(***************************************************************************)
(* Object definitions of the worlds used (WorldState.objects).             *)
(***************************************************************************)
Catalog ==
    [a |-> [form |-> "ball",    size |-> "small", color |-> "white"],
     b |-> [form |-> "box",     size |-> "large", color |-> "red"],
     c |-> [form |-> "table",   size |-> "large", color |-> "blue"],
     d |-> [form |-> "pyramid", size |-> "small", color |-> "red"]]

\* state.objects[id]: undefined for an identifier that is no key (the floor)
Lookup(objects, id) == IF id \in DOMAIN objects THEN objects[id] ELSE UNDEFINED

\* the result of a call: the value returned, or the error thrown
Return(v) == [val |-> v]

Throw(e) == [err |-> e]

Threw(r) == "err" \in DOMAIN r

\* reading a property of undefined
TypeError == Throw(<< "TypeError" >>)

(***************************************************************************)
(* Interpreter.checkPhysics                                                *)
(***************************************************************************)
\* mutant: the small box is refused on a small brick instead of a small plank
checkPhysicsBricks(srcId, srcObj, relation, dstId, dstObj) ==
    IF srcId = dstId THEN Return(FALSE)
    ELSE IF dstObj = UNDEFINED THEN Return(TRUE)
    \* srcObj.form of a source that has no definition
    ELSE IF srcObj = UNDEFINED THEN TypeError
    ELSE IF srcObj.form = "floor" THEN Return(FALSE)
    ELSE Return(
         CASE relation = "inside" ->
                IF dstObj.form # "box" THEN FALSE
                ELSE IF srcObj.size = "large" /\ dstObj.size = "small" THEN FALSE
                ELSE IF srcObj.form \in {"pyramid", "plank", "box"}
                        /\ dstObj.form = "box" /\ srcObj.size = dstObj.size THEN FALSE
                ELSE TRUE
           [] relation = "ontop" ->
                IF dstObj.form = "box" THEN FALSE
                ELSE IF srcObj.size = "large" /\ dstObj.size = "small" THEN FALSE
                ELSE IF srcObj.form = "ball" /\ dstObj.form # "floor" THEN FALSE
                ELSE IF srcObj.size = "small" /\ srcObj.form = "box" /\ dstObj.size = "small"
                        /\ dstObj.form \in {"pyramid", "brick"} THEN FALSE
                ELSE IF srcObj.size = "large" /\ srcObj.form = "box" /\ dstObj.size = "large"
                        /\ dstObj.form = "pyramid" THEN FALSE
                ELSE TRUE
           [] relation = "under" ->
                IF dstObj.form = "floor" THEN FALSE
                ELSE IF dstObj.size = "large" /\ srcObj.size = "small" THEN FALSE
                ELSE IF dstObj.form = "ball" /\ srcObj.form # "floor" /\ srcObj.form # "box" THEN FALSE
                ELSE TRUE
           [] relation = "beside" ->
                IF dstObj.form = "floor" THEN FALSE ELSE TRUE
           [] OTHER -> TRUE)

\* checkPhysics(srcId, srcObj, relation, dstId, dstObj): the value returned, or
\* the TypeError of reading the form of a source without definition
checkPhysics(srcId, srcObj, relation, dstId, dstObj) ==
    IF srcId = dstId THEN Return(FALSE)
    ELSE IF dstObj = UNDEFINED THEN Return(TRUE)
    \* srcObj.form of a source that has no definition
    ELSE IF srcObj = UNDEFINED THEN TypeError
    ELSE IF srcObj.form = "floor" THEN Return(FALSE)
    ELSE Return(
         CASE relation = "inside" ->
                IF dstObj.form # "box" THEN FALSE
                ELSE IF srcObj.size = "large" /\ dstObj.size = "small" THEN FALSE
                ELSE IF srcObj.form \in {"pyramid", "plank", "box"}
                        /\ dstObj.form = "box" /\ srcObj.size = dstObj.size THEN FALSE
                ELSE TRUE
           [] relation = "ontop" ->
                IF dstObj.form = "box" THEN FALSE
                ELSE IF srcObj.size = "large" /\ dstObj.size = "small" THEN FALSE
                ELSE IF srcObj.form = "ball" /\ dstObj.form # "floor" THEN FALSE
                ELSE IF srcObj.size = "small" /\ srcObj.form = "box" /\ dstObj.size = "small"
                        /\ dstObj.form \in {"pyramid", "plank"} THEN FALSE
                ELSE IF srcObj.size = "large" /\ srcObj.form = "box" /\ dstObj.size = "large"
                        /\ dstObj.form = "pyramid" THEN FALSE
                ELSE TRUE
           [] relation = "under" ->
                IF dstObj.form = "floor" THEN FALSE
                ELSE IF dstObj.size = "large" /\ srcObj.size = "small" THEN FALSE
                ELSE IF dstObj.form = "ball" /\ srcObj.form # "floor" /\ srcObj.form # "box" THEN FALSE
                ELSE TRUE
           [] relation = "beside" ->
                IF dstObj.form = "floor" THEN FALSE ELSE TRUE
           [] OTHER -> TRUE)

(***************************************************************************)
(* PNode and the array operations outgoingEdges uses                       *)
(***************************************************************************)
PNode(stacks, holding, arm, action) ==
    [stacks |-> stacks, holding |-> holding, arm |-> arm, action |-> action]

Edge(from, to, cost) == [from |-> from, to |-> to, cost |-> cost]

\* Array.prototype.slice(): a new array with the same elements
slice(m, addr) == [mem |-> Append(m, m[addr]), addr |-> Len(m) + 1]

\* Array.prototype.pop() on the array at addr
pop(m, addr) ==
    [mem   |-> [m EXCEPT ![addr] = SubSeq(m[addr], 1, Len(m[addr]) - 1)],
     value |-> m[addr][Len(m[addr])]]

\* Array.prototype.push(x) on the array at addr
push(m, addr, x) == [m EXCEPT ![addr] = Append(m[addr], x)]

\* node.stacks[i] for the 0-based column index i: the address of the column
ColAddr(m, n, i) == m[n.stacks][i + 1]

\* node.stacks[i]: the contents of that column
Col(m, n, i) == m[ColAddr(m, n, i)]

\* the stacks of a node as a value: what JSON.stringify prints for it
StacksVal(m, addr) == [i \in 1..Len(m[addr]) |-> m[m[addr][i]]]

\* JSON.stringify(node), PNode.toString: stacks, holding, arm and action
toString(m, n) ==
    [stacks |-> StacksVal(m, n.stacks), holding |-> n.holding,
     arm |-> n.arm, action |-> n.action]

(***************************************************************************)
(* PGraph.outgoingEdges, one operator per branch                           *)
(***************************************************************************)
\* var left = new PNode(node.stacks, node.holding, node.arm, "l"); left.arm--;
LeftNode(n) == PNode(n.stacks, n.holding, n.arm - 1, "l")

\* var right = new PNode(node.stacks, node.holding, node.arm, "r"); right.arm++;
RightNode(n) == PNode(n.stacks, n.holding, n.arm + 1, "r")

\* mutant: only the outer array is copied, the column stays shared
CopyOnWriteShallow(m, n) == slice(m, n.stacks)

\* pick.stacks = node.stacks.slice(); pick.stacks[arm] = pick.stacks[arm].slice()
CopyOnWrite(m, n) ==
    LET s1 == slice(m, n.stacks)
        s2 == slice(s1.mem, s1.mem[s1.addr][n.arm + 1])
    IN  [mem |-> [s2.mem EXCEPT ![s1.addr][n.arm + 1] = s2.addr], addr |-> s1.addr]

\* mutant: the top object is read but not removed from the column
PickNodeNoPop(m, n) ==
    LET cw  == CopyOnWrite(m, n)
        pk  == PNode(cw.addr, n.holding, n.arm, "p")
        col == Col(cw.mem, pk, pk.arm)
    IN  [mem |-> cw.mem, to |-> [pk EXCEPT !.holding = col[Len(col)]]]

\* the pick branch: the new node and the memory after building it
PickNode(m, n) ==
    LET cw  == CopyOnWrite(m, n)
        pk  == PNode(cw.addr, n.holding, n.arm, "p")
        pp  == pop(cw.mem, ColAddr(cw.mem, pk, pk.arm))
    IN  [mem |-> pp.mem, to |-> [pk EXCEPT !.holding = pp.value]]

\* mutant: the dropped object stays in the arm
DropNodeKeepsHolding(m, n) ==
    LET cw  == CopyOnWrite(m, n)
        dr  == PNode(cw.addr, n.holding, n.arm, "d")
        m2  == push(cw.mem, ColAddr(cw.mem, dr, dr.arm), dr.holding)
    IN  [mem |-> m2, to |-> dr]

\* the drop branch: the new node and the memory after building it
DropNode(m, n) ==
    LET cw  == CopyOnWrite(m, n)
        dr  == PNode(cw.addr, n.holding, n.arm, "d")
        m2  == push(cw.mem, ColAddr(cw.mem, dr, dr.arm), dr.holding)
    IN  [mem |-> m2, to |-> [dr EXCEPT !.holding = NULL]]

CanLeft(m, n) == n.arm > 0

\* mutant: the bound is the number of columns, not the last column index
CanRightOffByOne(m, n) == n.arm < Len(m[n.stacks])

CanRight(m, n) == n.arm < Len(m[n.stacks]) - 1

CanPick(m, n) == n.holding = NULL /\ Len(Col(m, n, n.arm)) > 0

\* the outcome of a computation: the one element of S, what was returned or
\* the error thrown
Outcome(S) == CHOOSE x \in S : TRUE

\* what a call of a member that is undefined throws: a TypeError, kept as the
\* text it prints
NotAFunction == "TypeError: Interpreter.checkPhysics is not a function"

\* the members of module Interpreter that are declared with export;
\* checkPhysics is declared without
InterpreterExports == {"interpret", "stringify", "stringifyLiteral"}

\* Interpreter.checkPhysics(...) as the planner calls it, from outside the
\* module: a member that is not exported is undefined on the module object,
\* and calling it throws a TypeError
InterpreterCheckPhysics(srcId, srcObj, relation, dstId, dstObj) ==
    IF "checkPhysics" \in InterpreterExports
    THEN checkPhysics(srcId, srcObj, relation, dstId, dstObj)
    ELSE Throw(NotAFunction)

\* mutant: a drop is never refused
physicsOkUnchecked(m, objects, n) == Return(TRUE)

\* the physicsOk computation of the drop branch
physicsOk(m, objects, n) ==
    IF Len(Col(m, n, n.arm)) = 0 THEN Return(TRUE)
    ELSE LET srcId    == n.holding
             srcObj   == Lookup(objects, srcId)
             dstId    == Col(m, n, n.arm)[Len(Col(m, n, n.arm))]
             dstObj   == Lookup(objects, dstId)
             relation == IF dstObj.form = "box" THEN "inside" ELSE "ontop"
         IN  InterpreterCheckPhysics(srcId, srcObj, relation, dstId, dstObj)

\* the condition of the drop branch: something is held and the column is not full
CanDrop(m, n) ==
    /\ n.holding # NULL
    /\ Len(Col(m, n, n.arm)) < Len(m[n.stacks])

\* if(physicsOk) { ... edges.push({from: node, to: drop, cost: 1}) }
WithDrop(m, n, edges, ok) ==
    IF ok THEN [mem |-> DropNode(m, n).mem, edges |-> Append(edges, Edge(n, DropNode(m, n).to, 1))]
    ELSE [mem |-> m, edges |-> edges]

\* PGraph.outgoingEdges(node): the edges and the memory after the call, or
\* the error thrown while computing physicsOk
outgoingEdges(m, objects, n) ==
    LET e1 == IF CanLeft(m, n) THEN << Edge(n, LeftNode(n), 1) >> ELSE << >>
        e2 == IF CanRight(m, n) THEN Append(e1, Edge(n, RightNode(n), 1)) ELSE e1
        pk == IF CanPick(m, n) THEN PickNode(m, n) ELSE [mem |-> m]
        e3 == IF CanPick(m, n) THEN Append(e2, Edge(n, pk.to, 1)) ELSE e2
    IN  Outcome({IF Threw(ok) THEN ok ELSE Return(WithDrop(pk.mem, n, e3, ok.val)) :
                 ok \in {IF CanDrop(pk.mem, n) THEN physicsOk(pk.mem, objects, n)
                         ELSE Return(FALSE)}})

(***************************************************************************)
(* Goal test and heuristic of the planner                                  *)
(***************************************************************************)
Literal(relation, args) == [polarity |-> TRUE, relation |-> relation, args |-> args]

Abs(x) == IF x < 0 THEN -x ELSE x

Min(x, y) == IF x < y THEN x ELSE y

Infinity == 1000000

\* findIndex(obj, stacks): 0-based coordinate of the first occurrence of obj.
\* The formulas planned for name identifiers of the world that are not held at
\* the point of the call, so the final throw is not reached.
findIndex(obj, stacks) ==
    LET hits == UNION {{[x |-> i - 1, y |-> j - 1] :
                            j \in {k \in 1..Len(stacks[i]) : stacks[i][k] = obj}} :
                       i \in 1..Len(stacks)}
    IN  CHOOSE c \in hits : \A o \in hits : c.x < o.x \/ (c.x = o.x /\ c.y <= o.y)

LiteralHoldsWhileHeld(condition, holding, stacks) ==
    LET firstArg == condition.args[1]
    IN  IF condition.relation = "holding" THEN holding = firstArg
        ELSE LET secArg == condition.args[2]
             IN  IF holding = firstArg \/ holding = secArg THEN TRUE
                 ELSE LET firstCord == findIndex(firstArg, stacks)
                      IN  IF secArg = "floor"
                          THEN CASE condition.relation = "ontop" -> firstCord.y = 0
                                 [] OTHER -> TRUE
                          ELSE LET secCord == findIndex(secArg, stacks)
                               IN  CASE condition.relation = "leftof"  -> ~(firstCord.x >= secCord.x)
                                     [] condition.relation = "rightof" -> ~(firstCord.x <= secCord.x)
                                     [] condition.relation = "above" ->
                                            ~(firstCord.x # secCord.x \/ firstCord.y <= secCord.y)
                                     [] condition.relation = "under" ->
                                            ~(firstCord.x # secCord.x \/ firstCord.y >= secCord.y)
                                     [] condition.relation = "beside" ->
                                            ~(Abs(firstCord.x - secCord.x) # 1)
                                     [] condition.relation \in {"ontop", "inside"} ->
                                            ~(firstCord.x # secCord.x \/ firstCord.y - secCord.y # 1)
                                     [] OTHER -> TRUE

\* one literal of goal(): the body of the inner for loop
LiteralHolds(condition, holding, stacks) ==
    LET firstArg == condition.args[1]
    IN  IF condition.relation = "holding" THEN holding = firstArg
        ELSE LET secArg == condition.args[2]
             IN  IF holding = firstArg \/ holding = secArg THEN FALSE
                 ELSE LET firstCord == findIndex(firstArg, stacks)
                      IN  IF secArg = "floor"
                          THEN CASE condition.relation = "ontop" -> firstCord.y = 0
                                 [] OTHER -> TRUE
                          ELSE LET secCord == findIndex(secArg, stacks)
                               IN  CASE condition.relation = "leftof"  -> ~(firstCord.x >= secCord.x)
                                     [] condition.relation = "rightof" -> ~(firstCord.x <= secCord.x)
                                     [] condition.relation = "above" ->
                                            ~(firstCord.x # secCord.x \/ firstCord.y <= secCord.y)
                                     [] condition.relation = "under" ->
                                            ~(firstCord.x # secCord.x \/ firstCord.y >= secCord.y)
                                     [] condition.relation = "beside" ->
                                            ~(Abs(firstCord.x - secCord.x) # 1)
                                     [] condition.relation \in {"ontop", "inside"} ->
                                            ~(firstCord.x # secCord.x \/ firstCord.y - secCord.y # 1)
                                     [] OTHER -> TRUE

\* goal(interpretation, n): some conjunction has every literal satisfied
goal(interpretation, m, n) ==
    \E i \in 1..Len(interpretation) :
        \A j \in 1..Len(interpretation[i]) :
            LiteralHolds(interpretation[i][j], n.holding, StacksVal(m, n.stacks))

\* the amount one literal adds to andMin in heuristics()
LiteralEstimate(and, holding, arm, stacks) ==
    IF and.relation = "holding"
    THEN IF holding = and.args[1] THEN 0
         ELSE LET srcCoord == findIndex(and.args[1], stacks)
              IN  (IF holding # NULL THEN 1 ELSE 0) + Abs(arm - srcCoord.x) + 1
    ELSE IF holding = and.args[1]
         THEN IF and.args[2] = "floor" THEN 1
              ELSE LET dstCoord == findIndex(and.args[2], stacks)
                   IN  Abs(dstCoord.x - arm) + (IF and.relation = "beside" THEN 1 ELSE 0) + 1
         ELSE IF holding = and.args[2]
         THEN LET srcCoord == findIndex(and.args[1], stacks)
                  dstCoord == [x |-> arm, y |-> Len(stacks[arm + 1])]
              IN  1 + Abs(arm - srcCoord.x) + 1 + Abs(dstCoord.x - srcCoord.x) + 1
         ELSE LET srcCoord == findIndex(and.args[1], stacks)
              IN  (IF holding # NULL THEN 1 ELSE 0) + Abs(arm - srcCoord.x) + 1
                  + (IF and.args[2] = "floor" THEN 2
                     ELSE LET dstCoord == findIndex(and.args[2], stacks)
                          IN  Abs(dstCoord.x - srcCoord.x)
                              + (IF and.relation = "beside" THEN 1 ELSE 0) + 1)

RECURSIVE SumEstimates(_, _, _, _, _)
SumEstimates(ands, j, holding, arm, stacks) ==
    IF j > Len(ands) THEN 0
    ELSE LiteralEstimate(ands[j], holding, arm, stacks)
         + SumEstimates(ands, j + 1, holding, arm, stacks)

RECURSIVE MinOver(_, _, _, _, _, _)
MinOver(ors, i, min, holding, arm, stacks) ==
    IF i > Len(ors) THEN min
    ELSE MinOver(ors, i + 1, Min(min, SumEstimates(ors[i], 1, holding, arm, stacks)),
                 holding, arm, stacks)

\* heuristics(ors, node)
heuristics(ors, m, n) == MinOver(ors, 1, Infinity, n.holding, n.arm, StacksVal(m, n.stacks))

(***************************************************************************)
(* The graph aStarSearch is called with: the planning graph of a world     *)
(* with the goal and heuristic of a formula (kind "P"), or an abstract     *)
(* graph with explicit edges, goal nodes and heuristic values (kind "G").  *)
(***************************************************************************)
\* graph.outgoingEdges(node)
GraphEdges(m, n) ==
    IF graph.kind = "P" THEN outgoingEdges(m, graph.objects, n)
    ELSE LET es == graph.edges[n]
         IN  Return([mem |-> m, edges |-> [i \in 1..Len(es) |-> Edge(n, es[i][1], es[i][2])]])

\* goal(node)
GoalTest(m, n) ==
    IF graph.kind = "P" THEN goal(graph.formula, m, n) ELSE n \in graph.goals

\* heuristics(node)
Heuristic(m, n) ==
    IF graph.kind = "P" THEN heuristics(graph.formula, m, n) ELSE graph.h[n]

\* collections.Dictionary keys a node by its string form
Key(m, n) == IF graph.kind = "P" THEN toString(m, n) ELSE n

(***************************************************************************)
(* collections.Dictionary                                                  *)
(***************************************************************************)
EmptyDictionary == << >>

containsKey(d, k) == k \in DOMAIN d

getValue(d, k) == d[k]

setValue(d, k, v) == [x \in DOMAIN d \cup {k} |-> IF x = k THEN v ELSE d[x]]

(***************************************************************************)
(* collections.PriorityQueue.  lib/collections.ts is not part of the       *)
(* sources at hand, so the queue is modelled twice and a search runs on    *)
(* one of the two, fixed at its start:                                     *)
(*                                                                         *)
(*  "heap"    the array-backed binary heap under the reversed comparer of  *)
(*            the typescript-collections library: an entry is compared     *)
(*            with others when it is added and when the root is removed,   *)
(*            and not when the costs the comparer reads are lowered.       *)
(*            Indices are 0-based as in the container; element i of the    *)
(*            array is data[i + 1].                                        *)
(*  "ordered" the frontier as a queue that always hands out the entry of   *)
(*            highest priority under the comparer, read with the costs of  *)
(*            the moment, the earliest enqueued of equals; the queue is    *)
(*            the sequence of its entries in insertion order.              *)
(*                                                                         *)
(* In both a node enqueued twice has two entries.  Where a loop of the     *)
(* container goes round again, the array it has built so far is bound as a *)
(* value (d \in {...}) and handed to the next round.                       *)
(***************************************************************************)
Containers == {"heap", "ordered"}

\* the comparer closure of aStarSearch, reading the current costs
comparer(m, cs, a, b) ==
    LET aCost == getValue(cs, Key(m, a)) + Heuristic(m, a)
        bCost == getValue(cs, Key(m, b)) + Heuristic(m, b)
    IN  bCost - aCost

\* collections.reverseCompareFunction(comparer)
heapCompare(m, cs, a, b) == comparer(m, cs, a, b) * (-1)

swap(data, i, j) == [data EXCEPT ![i + 1] = data[j + 1], ![j + 1] = data[i + 1]]

parentIndex(i) == (i - 1) \div 2

minIndex(m, cs, data, leftChild, rightChild) ==
    IF rightChild >= Len(data)
    THEN IF leftChild >= Len(data) THEN -1 ELSE leftChild
    ELSE IF heapCompare(m, cs, data[leftChild + 1], data[rightChild + 1]) <= 0
         THEN leftChild ELSE rightChild

RECURSIVE siftUp(_, _, _, _)
siftUp(m, cs, data, index) ==
    IF index > 0 /\ heapCompare(m, cs, data[parentIndex(index) + 1], data[index + 1]) > 0
    THEN CHOOSE r \in {siftUp(m, cs, d, p) : d \in {swap(data, parentIndex(index), index)},
                                              p \in {parentIndex(index)}} : TRUE
    ELSE data

RECURSIVE siftDown(_, _, _, _)
siftDown(m, cs, data, nodeIndex) ==
    CHOOSE r \in
        {IF min >= 0 /\ heapCompare(m, cs, data[nodeIndex + 1], data[min + 1]) > 0
         THEN CHOOSE r2 \in {siftDown(m, cs, d, min) : d \in {swap(data, min, nodeIndex)}} : TRUE
         ELSE data :
         min \in {minIndex(m, cs, data, 2 * nodeIndex + 1, 2 * nodeIndex + 2)}} : TRUE

\* Heap.add(element)
add(m, cs, data, element) ==
    CHOOSE r \in {siftUp(m, cs, d, Len(data)) : d \in {Append(data, element)}} : TRUE

\* Heap.removeRoot(): the array that is left
removeRoot(m, cs, data) ==
    IF Len(data) = 1 THEN << >>
    ELSE CHOOSE r \in {siftDown(m, cs, d, 0) :
                        d \in {[SubSeq(data, 1, Len(data) - 1) EXCEPT ![1] = data[Len(data)]]}} : TRUE

\* the position of the entry of highest priority among best and the entries
\* from i on: a later entry replaces an earlier one only if the comparer
\* puts it strictly ahead, so that of equals the one enqueued first stays
RECURSIVE highestFrom(_, _, _, _, _)
highestFrom(m, cs, data, i, best) ==
    IF i > Len(data) THEN best
    ELSE CHOOSE r \in {highestFrom(m, cs, data, i + 1, b) :
                       b \in {IF comparer(m, cs, data[i], data[best]) > 0 THEN i ELSE best}} : TRUE

\* the position of the entry of highest priority, the earliest of equals
highest(m, cs, data) == highestFrom(m, cs, data, 2, 1)

\* queue.enqueue(element)
enqueue(m, cs, data, element) ==
    IF container = "heap" THEN add(m, cs, data, element) ELSE Append(data, element)

\* queue.peek(): the entry queue.dequeue() returns
peek(m, cs, data) ==
    IF container = "heap" THEN data[1] ELSE data[highest(m, cs, data)]

\* queue.dequeue(): the entries that are left
dequeue(m, cs, data) ==
    IF container = "heap" THEN removeRoot(m, cs, data)
    ELSE CHOOSE r \in {SubSeq(data, 1, i - 1) \o SubSeq(data, i + 1, Len(data)) :
                       i \in {highest(m, cs, data)}} : TRUE

(***************************************************************************)
(* aStarSearch                                                             *)
(***************************************************************************)
\* mutant: the loop over the edges is left at the first edge that is no improvement
RECURSIVE RelaxStopsEarly(_, _, _, _, _, _, _, _)
RelaxStopsEarly(m, edges, i, nd, nodeCost, q, cs, ps) ==
    IF i > Len(edges) THEN [queue |-> q, costs |-> cs, paths |-> ps]
    ELSE LET newNode == edges[i].to
             newCost == nodeCost + edges[i].cost
             key     == Key(m, newNode)
         IN  IF ~containsKey(cs, key) \/ newCost < getValue(cs, key)
             THEN LET ps2 == setValue(ps, key, nd)
                      cs2 == setValue(cs, key, newCost)
                  IN  CHOOSE r \in {RelaxStopsEarly(m, edges, i + 1, nd, nodeCost,
                                                    s.queue, s.costs, s.paths) :
                                    s \in {[queue |-> enqueue(m, cs2, q, newNode),
                                            costs |-> cs2, paths |-> ps2]}} : TRUE
             ELSE [queue |-> q, costs |-> cs, paths |-> ps]

\* the body of the for loop over the outgoing edges, for edges i..
RECURSIVE Relax(_, _, _, _, _, _, _, _)
Relax(m, edges, i, nd, nodeCost, q, cs, ps) ==
    IF i > Len(edges) THEN [queue |-> q, costs |-> cs, paths |-> ps]
    ELSE LET newNode == edges[i].to
             newCost == nodeCost + edges[i].cost
             key     == Key(m, newNode)
         IN  IF ~containsKey(cs, key) \/ newCost < getValue(cs, key)
             THEN LET ps2 == setValue(ps, key, nd)
                      cs2 == setValue(cs, key, newCost)
                      \* the dictionaries and the queue after this edge, as values
                  IN  CHOOSE r \in {Relax(m, edges, i + 1, nd, nodeCost, s.queue, s.costs, s.paths) :
                                    s \in {[queue |-> enqueue(m, cs2, q, newNode),
                                            costs |-> cs2, paths |-> ps2]}} : TRUE
             ELSE Relax(m, edges, i + 1, nd, nodeCost, q, cs, ps)

\* mutant: the nodes are pushed to the path instead of unshifted
RECURSIVE PathToPushed(_, _, _, _)
PathToPushed(m, ps, st, n) ==
    IF n = st THEN << >>
    ELSE CHOOSE r \in {<<n>> \o PathToPushed(m, ps, st, p) : p \in {getValue(ps, Key(m, n))}} : TRUE

\* for(; node != start; node = paths.getValue(node)) result.path.unshift(node)
RECURSIVE PathTo(_, _, _, _)
PathTo(m, ps, st, n) ==
    IF n = st THEN << >>
    ELSE CHOOSE r \in {Append(PathTo(m, ps, st, p), n) : p \in {getValue(ps, Key(m, n))}} : TRUE

NoResult == [undefined |-> TRUE]

\* a variable of the planner that has no value yet
Unset == [unset |-> TRUE]

(***************************************************************************)
(* Abstract graphs for the search on its own: nodes 0..5, node 0 the start.*)
(* graph.edges[n] lists the <<to, cost>> pairs of node n in the order      *)
(* outgoingEdges returns them.                                             *)
(***************************************************************************)
MaxH == 2

TestNodes == 0..5

TestGraphs ==
    { \* a diamond with a costly direct edge and cheaper detours
      [n \in TestNodes |->
        CASE n = 0 -> << <<2, 1>>, <<3, 2>>, <<4, 3>> >>
          [] n = 2 -> << <<1, 1>>, <<4, 1>> >>
          [] n = 3 -> << <<1, 3>> >>
          [] n = 4 -> << <<1, 1>>, <<5, 1>> >>
          [] OTHER -> << >>],
      \* cycles through the start, node 5 unreachable
      [n \in TestNodes |->
        CASE n = 0 -> << <<1, 2>>, <<2, 1>> >>
          [] n = 1 -> << <<0, 1>>, <<3, 1>> >>
          [] n = 2 -> << <<1, 0>>, <<3, 3>>, <<2, 1>> >>
          [] n = 3 -> << <<0, 1>>, <<4, 2>> >>
          [] n = 5 -> << <<4, 1>> >>
          [] OTHER -> << >>],
      \* a costly edge to node 2 and a cheaper way to it through node 3: under
      \* a heuristic that is high on node 3, node 2 is expanded first and its
      \* cost is lowered afterwards
      [n \in TestNodes |->
        CASE n = 0 -> << <<2, 2>>, <<3, 1>> >>
          [] n = 2 -> << <<4, 1>> >>
          [] n = 3 -> << <<1, 0>>, <<2, 0>> >>
          [] n = 4 -> << <<5, 1>> >>
          [] OTHER -> << >>] }

TestGoals == {0, 1, 5}

InitSearch ==
    /\ \E es \in TestGraphs, h \in [TestNodes -> 0..MaxH], g \in TestGoals, t \in {0, 5} :
          graph = [kind |-> "G", edges |-> es, h |-> h, goals |-> {g}, timeout |-> t]
    /\ container \in Containers
    /\ mem = << >>
    /\ start = 0
    \* queue.enqueue(start); costs.setValue(start, 0)
    /\ queue = << 0 >>
    /\ costs = setValue(EmptyDictionary, 0, 0)
    /\ paths = EmptyDictionary
    /\ node = NULL
    /\ pc = "loop"
    /\ result = NULL
    /\ world = NULL /\ input = NULL /\ interps = << >> /\ idx = 0
    /\ plans = << >> /\ errors = << >> /\ outcome = NULL
    /\ NoInterpreter

\* one pass of the while loop that ends in the break: the dequeued node is a goal
DequeueGoal ==
    /\ pc = "loop"
    /\ Len(queue) > 0
    /\ \E nd \in {peek(mem, costs, queue)} :
         /\ GoalTest(mem, nd)
         /\ node' = nd
    /\ queue' = dequeue(mem, costs, queue)
    /\ pc' = "return"
    /\ UNCHANGED <<container, graph, mem, start, costs, paths, result, planVars, interpVars>>

\* mutant: the node is read from the queue but stays in it
DequeueExpandKeepsEntry ==
    /\ pc = "loop"
    /\ Len(queue) > 0
    /\ \E nd \in {peek(mem, costs, queue)} :
         /\ ~GoalTest(mem, nd)
         /\ \E ge \in {GraphEdges(mem, nd)} :
              /\ ~Threw(ge)
              /\ \E oe \in {ge.val}, nodeCost \in {getValue(costs, Key(mem, nd))} :
                   \E r \in {Relax(oe.mem, oe.edges, 1, nd, nodeCost, queue, costs, paths)} :
                     /\ node' = nd
                     /\ mem' = oe.mem
                     /\ queue' = r.queue
                     /\ costs' = r.costs
                     /\ paths' = r.paths
    /\ pc' = "loop"
    /\ UNCHANGED <<container, graph, start, result, planVars, interpVars>>

\* one pass of the while loop that expands the dequeued node
DequeueExpand ==
    /\ pc = "loop"
    /\ Len(queue) > 0
    /\ \E nd \in {peek(mem, costs, queue)} :
         /\ ~GoalTest(mem, nd)
         /\ \E ge \in {GraphEdges(mem, nd)} :
              /\ ~Threw(ge)
              /\ \E q1 \in {dequeue(mem, costs, queue)},
                    oe \in {ge.val}, nodeCost \in {getValue(costs, Key(mem, nd))} :
                   \E r \in {Relax(oe.mem, oe.edges, 1, nd, nodeCost, q1, costs, paths)} :
                     /\ node' = nd
                     /\ mem' = oe.mem
                     /\ queue' = r.queue
                     /\ costs' = r.costs
                     /\ paths' = r.paths
    /\ pc' = "loop"
    /\ UNCHANGED <<container, graph, start, result, planVars, interpVars>>

\* the while condition fails: the queue is empty
QueueEmpty ==
    /\ pc = "loop"
    /\ Len(queue) = 0
    /\ pc' = "return"
    /\ UNCHANGED <<container, graph, mem, searchVars, planVars, interpVars>>

\* mutant: the result is built without the goal test after the loop
SearchResultNoGoalCheck ==
    [path |-> PathTo(mem, paths, start, node), cost |-> getValue(costs, Key(mem, node))]

\* the value aStarSearch returns after the loop
SearchResult ==
    IF ~GoalTest(mem, node) THEN NoResult
    ELSE [path |-> PathTo(mem, paths, start, node), cost |-> getValue(costs, Key(mem, node))]

\* if(!goal(node)) return undefined;  else build the result and return it
ReturnResult ==
    /\ pc = "return"
    /\ result' = SearchResult
    /\ pc' = "returned"
    /\ UNCHANGED <<container, graph, mem, start, queue, costs, paths, node, planVars, interpVars>>

NextSearch == DequeueGoal \/ DequeueExpand \/ QueueEmpty \/ ReturnResult

SearchSpec == InitSearch /\ [][NextSearch]_vars

(***************************************************************************)
(* Properties of aStarSearch on its own                                    *)
(***************************************************************************)
Returned == pc = "returned"

Found == pc = "returned" /\ result # NoResult

\* the node before path[i]: the start node for the first element
Before(path, i) == IF i = 1 THEN start ELSE path[i - 1]

\* the costs of the outgoing edges of `from` that lead to `to`
EdgeCosts(from, to) ==
    IF Threw(GraphEdges(mem, from)) THEN {}
    ELSE LET oe == GraphEdges(mem, from).val
         IN  {oe.edges[i].cost :
                 i \in {k \in 1..Len(oe.edges) : Key(oe.mem, oe.edges[k].to) = Key(mem, to)}}

RECURSIVE SumCosts(_, _)
SumCosts(path, i) ==
    IF i > Len(path) THEN 0
    ELSE (CHOOSE c \in EdgeCosts(Before(path, i), path[i]) : TRUE) + SumCosts(path, i + 1)

\* the destinations of the edges leaving the nodes of S in an abstract graph
Succs(S) == UNION {{graph.edges[n][i][1] : i \in 1..Len(graph.edges[n])} : n \in S}

\* the nodes reachable from S in an abstract graph
RECURSIVE ReachableFrom(_)
ReachableFrom(S) == IF Succs(S) \subseteq S THEN S ELSE ReachableFrom(S \cup Succs(S))

\* C2: a returned result is a path that leaves out the start node, follows
\* outgoing edges from the start node on, and ends in a node that satisfies
\* the goal test (the start node itself for the empty path); anything else
\* aStarSearch returns is "no result".
C2_PathLeadsToGoal ==
    Returned =>
        \/ result = NoResult
        \/ /\ DOMAIN result = {"path", "cost"}
           /\ \A i \in 1..Len(result.path) :
                /\ result.path[i] # start
                /\ EdgeCosts(Before(result.path, i), result.path[i]) # {}
           /\ GoalTest(mem, IF Len(result.path) = 0 THEN start
                            ELSE result.path[Len(result.path)])

C2_Witness == Found /\ Len(result.path) >= 3

C4_NoPathIffUnreachable ==
    Returned => ((result = NoResult) <=> (ReachableFrom({start}) \cap graph.goals = {}))

C4_Witness == Returned /\ result = NoResult /\ Cardinality(DOMAIN costs) >= 4

(***************************************************************************)
(* Planner.plan and planInterpretation on small worlds                     *)
(***************************************************************************)
PlanCols == 3

PlanIds == {"a", "b"}

PlanObjects == [id \in PlanIds |-> Catalog[id]]

RECURSIVE Perms(_)
Perms(S) == IF S = {} THEN {<< >>}
            ELSE UNION {{<<x>> \o q : q \in Perms(S \ {x})} : x \in S}

\* the ways to cut the sequence s into k consecutive columns
RECURSIVE Splits(_, _)
Splits(s, k) ==
    IF k = 1 THEN {<<s>>}
    ELSE UNION {{<<SubSeq(s, 1, i)>> \o t : t \in Splits(SubSeq(s, i + 1, Len(s)), k - 1)} :
                i \in 0..Len(s)}

\* every world of k columns in which each identifier occurs exactly once,
\* in one column or held, with the arm over some column
Worlds(ids, k) ==
    UNION {UNION {{[stacks |-> st, holding |-> h, arm |-> a] : st \in Splits(q, k), a \in 0..k - 1} :
                  q \in Perms(ids \ {h})} :
           h \in ids \cup {NULL}}

\* a memory that holds the columns of a stacks value and then the stacks array
MemOf(stacksVal) == stacksVal \o << [i \in 1..Len(stacksVal) |-> i] >>

Relations == {"ontop", "inside", "above", "under", "leftof", "rightof", "beside"}

\* the literals over the identifiers ids, the floor as second argument of ontop and above
Literals(ids) ==
    {Literal("holding", <<x>>) : x \in ids}
    \cup {Literal(r, q) : r \in Relations, q \in {q \in ids \X ids : q[1] # q[2]}}
    \cup {Literal(r, <<x, "floor">>) : r \in {"ontop", "above"}, x \in ids}

\* an order on literals, to list each pair of literals once
IdRank == [a |-> 1, b |-> 2, c |-> 3, d |-> 4, floor |-> 5]

LitRank(l) == 10 * IdRank[l.args[1]] + (IF Len(l.args) = 2 THEN IdRank[l.args[2]] ELSE 0)

LiteralPairs(ids) ==
    {<<l1, l2>> \in Literals(ids) \X Literals(ids) :
        l1.relation = l2.relation /\ LitRank(l1) < LitRank(l2)}

\* the formulas planned for: one literal, a conjunction of two literals of one
\* relation, a disjunction of two literals of one relation
Formulas(ids) ==
    {<< <<l>> >> : l \in Literals(ids)}
    \cup {<< <<q[1], q[2]>> >> : q \in LiteralPairs(ids)}
    \cup {<< <<q[1]>>, <<q[2]>> >> : q \in LiteralPairs(ids)}

\* the planned worlds have one to PlanCols columns and start with the arm
\* over the leftmost column
PlanWorlds == {w \in UNION {Worlds(PlanIds, k) : k \in 1..PlanCols} : w.arm = 0}

PlanFormulas == Formulas(PlanIds)

\* the state when Planner.plan is called with a world of W and a list of formulas of L
PlanCall(W, L) ==
    /\ \E w \in W, fs \in L :
          /\ mem = MemOf(w.stacks)
          /\ world = [stacks |-> Len(w.stacks) + 1, holding |-> w.holding, arm |-> w.arm,
                      objects |-> PlanObjects]
          /\ input = w
          /\ interps = fs
    /\ idx = 1
    /\ plans = << >>
    /\ errors = << >>
    /\ outcome = Unset
    /\ graph = Unset
    /\ container \in Containers
    /\ start = Unset /\ queue = << >> /\ costs = EmptyDictionary /\ paths = EmptyDictionary
    /\ node = Unset /\ result = Unset
    /\ pc = "plan"
    /\ NoInterpreter

InitPlan == PlanCall(PlanWorlds, {<< f >> : f \in PlanFormulas})

\* planInterpretation up to the first pass of aStarSearch's loop: the graph,
\* the start node, the goal and heuristic closures, the queue and the costs
StartPlan ==
    /\ pc = "plan"
    /\ LET startNode == PNode(world.stacks, world.holding, world.arm, NULL)
       IN  /\ graph' = [kind |-> "P", objects |-> world.objects, formula |-> interps[idx],
                        timeout |-> 5]
           /\ start' = startNode
           /\ queue' = << startNode >>
           /\ costs' = setValue(EmptyDictionary, toString(mem, startNode), 0)
    /\ paths' = EmptyDictionary
    /\ node' = Unset
    /\ result' = Unset
    /\ pc' = "loop"
    /\ UNCHANGED <<container, mem, planVars, interpVars>>

\* for(var node of aStar.path) plan.push(node.action)
PlanOf(path) == [i \in 1..Len(path) |-> path[i].action]

PlanFoundNoNotice ==
    /\ pc = "returned"
    /\ result # NoResult
    /\ LET p1 == PlanOf(result.path)
           p2 == p1
       IN  plans' = Append(plans, [interpretation |-> interps[idx], plan |-> p2])
    /\ idx' = idx + 1
    /\ pc' = IF idx + 1 > Len(interps) THEN "end" ELSE "plan"
    /\ UNCHANGED <<container, graph, mem, searchVars, world, input, interps, errors, outcome, interpVars>>

\* the rest of the forEach callback when aStarSearch returned a result
PlanFound ==
    /\ pc = "returned"
    /\ result # NoResult
    /\ LET p1 == PlanOf(result.path)
           p2 == IF Len(p1) = 0 THEN << "That is already true!" >> ELSE p1
       IN  plans' = Append(plans, [interpretation |-> interps[idx], plan |-> p2])
    /\ idx' = idx + 1
    /\ pc' = IF idx + 1 > Len(interps) THEN "end" ELSE "plan"
    /\ UNCHANGED <<container, graph, mem, searchVars, world, input, interps, errors, outcome, interpVars>>

PlanImpossibleAborts ==
    /\ pc = "returned"
    /\ result = NoResult
    /\ errors' = Append(errors, "that's impossible")
    /\ idx' = idx + 1
    /\ pc' = "end"
    /\ UNCHANGED <<container, graph, mem, searchVars, world, input, interps, plans, outcome, interpVars>>

\* the rest of the forEach callback when aStarSearch returned undefined
PlanImpossible ==
    /\ pc = "returned"
    /\ result = NoResult
    /\ errors' = Append(errors, "that's impossible")
    /\ idx' = idx + 1
    /\ pc' = IF idx + 1 > Len(interps) THEN "end" ELSE "plan"
    /\ UNCHANGED <<container, graph, mem, searchVars, world, input, interps, plans, outcome, interpVars>>

\* a pass of the while loop in which graph.outgoingEdges throws: the error
\* leaves aStarSearch and planInterpretation
ExpandThrows ==
    /\ pc = "loop"
    /\ Len(queue) > 0
    /\ \E nd \in {peek(mem, costs, queue)} :
         /\ ~GoalTest(mem, nd)
         /\ \E ge \in {GraphEdges(mem, nd)} :
              /\ Threw(ge)
              /\ node' = nd
              /\ result' = ge
    /\ queue' = dequeue(mem, costs, queue)
    /\ pc' = "thrown"
    /\ UNCHANGED <<container, graph, mem, start, costs, paths, planVars, interpVars>>

\* the catch of the forEach callback for an error thrown inside the search
PlanCatch ==
    /\ pc = "thrown"
    /\ errors' = Append(errors, result.err)
    /\ idx' = idx + 1
    /\ pc' = IF idx + 1 > Len(interps) THEN "end" ELSE "plan"
    /\ UNCHANGED <<container, graph, mem, searchVars, world, input, interps, plans, outcome, interpVars>>

\* after the forEach: return the plans or throw the first error
PlanReturn ==
    /\ pc = "end"
    /\ outcome' = IF Len(plans) > 0 THEN [returned |-> plans] ELSE [thrown |-> errors[1]]
    /\ pc' = "done"
    /\ UNCHANGED <<container, graph, mem, searchVars, world, input, interps, idx, plans, errors, interpVars>>

NextPlan ==
    \/ StartPlan
    \/ DequeueGoal
    \/ DequeueExpand
    \/ ExpandThrows
    \/ QueueEmpty
    \/ ReturnResult
    \/ PlanFound
    \/ PlanImpossible
    \/ PlanCatch
    \/ PlanReturn

PlanSpec == InitPlan /\ [][NextPlan]_vars

(***************************************************************************)
(* The planner on the worlds in which nothing is held, for the             *)
(* conjunctions of "ontop" literals, some of which no state satisfies.     *)
(* The loop of aStarSearch runs on: a pass that can be taken is taken.     *)
(***************************************************************************)
FairCols == 3

FairWorlds ==
    {w \in UNION {Worlds(PlanIds, k) : k \in 1..FairCols} : w.arm = 0 /\ w.holding = NULL}

FairFormulas ==
    {f \in PlanFormulas : Len(f) = 1 /\ \A j \in 1..Len(f[1]) : f[1][j].relation = "ontop"}

InitPlanFair == PlanCall(FairWorlds, {<< f >> : f \in FairFormulas})

PlanFairSpec == InitPlanFair /\ [][NextPlan]_vars /\ WF_vars(NextPlan)

(***************************************************************************)
(* Properties of Planner.plan                                              *)
(***************************************************************************)
\* the planning state a world or a node stands for
StateOf(stacks, holding, arm) == [stacks |-> stacks, holding |-> holding, arm |-> arm]

\* the formula f is satisfied in the planning state s
Satisfied(f, s) ==
    \E i \in 1..Len(f) : \A j \in 1..Len(f[i]) : LiteralHolds(f[i][j], s.holding, s.stacks)

\* the robot action a is legal in the planning state s
Legal(objects, s, a) ==
    LET col == s.stacks[s.arm + 1]
    IN  CASE a = "l" -> s.arm > 0
          [] a = "r" -> s.arm < Len(s.stacks) - 1
          [] a = "p" -> s.holding = NULL /\ Len(col) > 0
          [] a = "d" ->
                /\ s.holding # NULL
                /\ Len(col) < Len(s.stacks)
                /\ \/ Len(col) = 0
                   \/ LET top == col[Len(col)]
                          rel == IF objects[top].form = "box" THEN "inside" ELSE "ontop"
                      IN  checkPhysics(s.holding, objects[s.holding], rel, top, objects[top]).val
          [] OTHER -> FALSE

\* the planning state after the robot action a in the state s
Apply(s, a) ==
    LET col == s.stacks[s.arm + 1]
    IN  CASE a = "l" -> [s EXCEPT !.arm = s.arm - 1]
          [] a = "r" -> [s EXCEPT !.arm = s.arm + 1]
          [] a = "p" -> [s EXCEPT !.stacks[s.arm + 1] = SubSeq(col, 1, Len(col) - 1),
                                  !.holding = col[Len(col)]]
          [] a = "d" -> [s EXCEPT !.stacks[s.arm + 1] = Append(col, s.holding),
                                  !.holding = NULL]

\* executing plan[i..] from s: whether every action was legal where it was
\* applied, and the state after the last one
RECURSIVE Execute(_, _, _, _)
Execute(objects, s, plan, i) ==
    IF i > Len(plan) THEN [legal |-> TRUE, state |-> s]
    ELSE IF ~Legal(objects, s, plan[i]) THEN [legal |-> FALSE, state |-> s]
    ELSE CHOOSE r \in {Execute(objects, t, plan, i + 1) : t \in {Apply(s, plan[i])}} : TRUE

\* C1: a plan returned for a formula the start world does not satisfy applies
\* only actions that are legal where they are applied, and the state after
\* its last action satisfies the formula.
C1_PlanIsLegalAndReachesGoal ==
    \A k \in 1..Len(plans) :
        ~Satisfied(plans[k].interpretation, input) =>
            LET run == Execute(world.objects, input, plans[k].plan, 1)
            IN  run.legal /\ Satisfied(plans[k].interpretation, run.state)

C1_Witness ==
    /\ pc = "done"
    /\ DOMAIN outcome = {"returned"}
    /\ \E k \in 1..Len(outcome.returned) :
          /\ ~Satisfied(outcome.returned[k].interpretation, input)
          /\ Len(outcome.returned[k].plan) >= 3

\* C5: the loop of aStarSearch over the planning graph ends: a goal node is
\* dequeued or the queue is empty.
C5_SearchTerminates == (pc = "loop") ~> (pc = "return")

\* the loop is always left: by the break, by the empty queue, or by the error
\* outgoingEdges throws
SearchLeavesLoop == (pc = "loop") ~> (pc \in {"return", "thrown"})

\* the value of the WorldState the planner was called with
WorldValue == StateOf(StacksVal(mem, world.stacks), world.holding, world.arm)

\* C10: the world given to Planner.plan keeps its stacks, holding and arm
\* throughout the call, and generating the outgoing edges of a queued node
\* leaves every array that existed before the call as it was.
C10_OriginUnchanged ==
    /\ WorldValue = input
    /\ \A i \in 1..Len(queue) :
          \/ Threw(outgoingEdges(mem, world.objects, queue[i]))
          \/ LET oe == outgoingEdges(mem, world.objects, queue[i]).val
             IN  /\ SubSeq(oe.mem, 1, Len(mem)) = mem
                 /\ \A e \in 1..Len(oe.edges) : oe.edges[e].from = queue[i]

C10_Witness == pc = "done" /\ Len(mem) > Len(input.stacks) + 1 /\ node.action = "p"

(***************************************************************************)
(* A walk along the edges of the planning graph: the current node is       *)
(* replaced by the destination of one of its outgoing edges.  The arrays   *)
(* no node refers to any more are dropped from the memory.                 *)
(***************************************************************************)
WalkWorlds == Worlds(DOMAIN Catalog, NumCols)

InitWalk ==
    /\ \E w \in WalkWorlds :
          /\ mem = MemOf(w.stacks)
          /\ node = PNode(NumCols + 1, w.holding, w.arm, NULL)
    /\ graph = [kind |-> "P", objects |-> Catalog, formula |-> << >>, timeout |-> 5]
    /\ container = NULL
    /\ pc = "walk"
    /\ start = NULL /\ queue = << >> /\ costs = EmptyDictionary /\ paths = EmptyDictionary
    /\ result = NULL
    /\ world = NULL /\ input = NULL /\ interps = << >> /\ idx = 0
    /\ plans = << >> /\ errors = << >> /\ outcome = NULL
    /\ NoInterpreter

\* the current node becomes the destination of its outgoing edge labelled `label`
Follow(label) ==
    /\ ~Threw(outgoingEdges(mem, graph.objects, node))
    /\ LET oe == outgoingEdges(mem, graph.objects, node).val
       IN  \E i \in 1..Len(oe.edges) :
              /\ oe.edges[i].to.action = label
              /\ mem' = MemOf(StacksVal(oe.mem, oe.edges[i].to.stacks))
              /\ node' = [oe.edges[i].to EXCEPT !.stacks = Len(mem[node.stacks]) + 1]

MoveLeft ==
    /\ pc = "walk"
    /\ Follow("l")
    /\ UNCHANGED <<container, graph, pc, start, queue, costs, paths, result, planVars, interpVars>>

MoveRight ==
    /\ pc = "walk"
    /\ Follow("r")
    /\ UNCHANGED <<container, graph, pc, start, queue, costs, paths, result, planVars, interpVars>>

Pick ==
    /\ pc = "walk"
    /\ Follow("p")
    /\ UNCHANGED <<container, graph, pc, start, queue, costs, paths, result, planVars, interpVars>>

Drop ==
    /\ pc = "walk"
    /\ Follow("d")
    /\ UNCHANGED <<container, graph, pc, start, queue, costs, paths, result, planVars, interpVars>>

\* outgoingEdges throws at the current node: no edge leaves it
EdgesThrow ==
    /\ pc = "walk"
    /\ Threw(outgoingEdges(mem, graph.objects, node))
    /\ outcome' = [thrown |-> outgoingEdges(mem, graph.objects, node).err]
    /\ pc' = "thrown"
    /\ UNCHANGED <<container, graph, mem, searchVars, world, input, interps, idx, plans, errors,
                   interpVars>>

NextWalk == MoveLeft \/ MoveRight \/ Pick \/ Drop \/ EdgesThrow

WalkSpec == InitWalk /\ [][NextWalk]_vars

(***************************************************************************)
(* Properties of the planning graph                                        *)
(***************************************************************************)
\* the edges outgoingEdges returns for the current node, as values:
\* label and destination state
Offered ==
    IF Threw(outgoingEdges(mem, graph.objects, node)) THEN {}
    ELSE LET oe == outgoingEdges(mem, graph.objects, node).val
         IN  {[label |-> oe.edges[i].to.action, to |-> toString(oe.mem, oe.edges[i].to),
               cost |-> oe.edges[i].cost] : i \in 1..Len(oe.edges)}

OfferedAs(label) == {e \in Offered : e.label = label}

Here == toString(mem, node)

\* how often the identifier id occurs in the columns of a stacks value
Occurrences(id, stacks) ==
    Cardinality({q \in (1..Len(stacks)) \X (1..Cardinality(DOMAIN Catalog)) :
                    q[2] <= Len(stacks[q[1]]) /\ stacks[q[1]][q[2]] = id})

ExactlyOnce(s) ==
    \A id \in DOMAIN graph.objects :
        Occurrences(id, s.stacks) + (IF s.holding = id THEN 1 ELSE 0) = 1

\* C6: in every state reached over l/r/p/d edges every object identifier
\* occurs exactly once, in one column position or as the held object.
C6_EachObjectExactlyOnce == pc = "walk" => ExactlyOnce(Here)

C6_Witness ==
    /\ pc = "walk"
    /\ node.action = "d"
    /\ \E c \in 1..NumCols : Len(Here.stacks[c]) >= 2

\* C7: a move-left edge is offered exactly when arm > 0, a move-right edge
\* exactly when arm < last column; a move edge changes arm by one and nothing
\* else; arm stays within [0, number of columns).
C7_MoveEdges ==
    pc = "walk" =>
        /\ Here.arm \in 0..Len(Here.stacks) - 1
        /\ (OfferedAs("l") # {}) <=> (Here.arm > 0)
        /\ (OfferedAs("r") # {}) <=> (Here.arm < Len(Here.stacks) - 1)
        /\ \A e \in OfferedAs("l") :
              e.to = [Here EXCEPT !.arm = Here.arm - 1, !.action = "l"]
        /\ \A e \in OfferedAs("r") :
              e.to = [Here EXCEPT !.arm = Here.arm + 1, !.action = "r"]

\* C8: a drop edge is offered exactly when an object is held, the arm's column
\* holds fewer objects than there are columns, and the column is empty or
\* checkPhysics approves the held object on the column's top object (inside for
\* a box, ontop otherwise); its destination has the held object on top of that
\* column, holds nothing, and is otherwise the origin.
C8_DropEdge ==
    pc = "walk" =>
        LET col == Here.stacks[Here.arm + 1]
            top == col[Len(col)]
            rel == IF Catalog[top].form = "box" THEN "inside" ELSE "ontop"
        IN  /\ (OfferedAs("d") # {}) <=>
                  /\ Here.holding # NULL
                  /\ Len(col) < Len(Here.stacks)
                  /\ \/ Len(col) = 0
                     \/ checkPhysics(Here.holding, Catalog[Here.holding], rel, top, Catalog[top]).val
            /\ \A e \in OfferedAs("d") :
                  e.to = [Here EXCEPT !.stacks[Here.arm + 1] = Append(col, Here.holding),
                                      !.holding = NULL, !.action = "d"]

\* C9: a pick edge is offered exactly when nothing is held and the arm's column
\* is not empty; its destination holds the former top of that column, the
\* column has lost its top element, and all else is the origin.
C9_PickEdge ==
    pc = "walk" =>
        LET col == Here.stacks[Here.arm + 1]
        IN  /\ (OfferedAs("p") # {}) <=> (Here.holding = NULL /\ Len(col) > 0)
            /\ \A e \in OfferedAs("p") :
                  e.to = [Here EXCEPT !.stacks[Here.arm + 1] = SubSeq(col, 1, Len(col) - 1),
                                      !.holding = col[Len(col)], !.action = "p"]

C9_Witness == pc = "walk" /\ node.action = "p" /\ Len(Here.stacks[node.arm + 1]) >= 1

(***************************************************************************)
(* The Interpreter.  The result of a call is a Return or a Throw, as for   *)
(* the planner above.  An error message is kept as the tuple               *)
(* of the strings the source concatenates; a failed property access on     *)
(* undefined is the error <<"TypeError">>.                                 *)
(*                                                                         *)
(* A Parser.Object is a description [form, size, color]; with a location   *)
(* restriction it is [object, location], location = [relation, entity].    *)
(* An ObjectRef of the floor has no stack and no posInStack field.         *)
(***************************************************************************)
\* entity.object.location !== undefined
Restricted(object) == "location" \in DOMAIN object

\* the positions the two loops of findObjects visit from column stackIndex on
RECURSIVE StackRefs(_, _)
StackRefs(stacks, stackIndex) ==
    IF stackIndex >= Len(stacks) THEN << >>
    ELSE [objIndex \in 1..Len(stacks[stackIndex + 1]) |->
             [objId |-> stacks[stackIndex + 1][objIndex], stack |-> stackIndex,
              posInStack |-> objIndex - 1]]
         \o StackRefs(stacks, stackIndex + 1)

findObjects(objectDesc, state) ==
    IF objectDesc.form = "floor"
    THEN IF objectDesc.size # NULL \/ objectDesc.color # NULL
         THEN Throw(<< "the floor can't have a size or color" >>)
         ELSE Return(<< [objId |-> "floor"] >>)
    ELSE LET Matches(ref) ==
                 LET object == state.objects[ref.objId]
                 IN  /\ objectDesc.form = NULL \/ objectDesc.form = "anyform"
                        \/ objectDesc.form = object.form
                     /\ objectDesc.size = NULL \/ objectDesc.size = object.size
                     /\ objectDesc.color = NULL \/ objectDesc.color = object.color
         IN  Return(SelectSeq(StackRefs(state.stacks, 0), Matches))

checkQuantifierTheAsAll(quantifier, entities) ==
    CASE quantifier \in {"the", "all"} -> Return(<< entities >>)
      [] quantifier = "any" -> Return([i \in 1..Len(entities) |-> << entities[i] >>])
      [] OTHER -> Throw(<< "unknown quantifier \"", quantifier, "\"" >>)

checkQuantifier(quantifier, entities) ==
    CASE quantifier = "the" ->
            IF Len(entities) > 1 THEN Throw(<< "\"the\" is ambigous" >>)
            ELSE Return(<< entities >>)
      [] quantifier = "any" -> Return([i \in 1..Len(entities) |-> << entities[i] >>])
      [] quantifier = "all" -> Return(<< entities >>)
      [] OTHER -> Throw(<< "unknown quantifier \"", quantifier, "\"" >>)

checkRelationInUtterence(srcQuantifier, srcObj, relation, dstQuantifier, dstObj) ==
    IF relation = "inside" /\ dstObj.form # "box"
    THEN Throw(<< "\"inside ", dstObj.form, "\" does not make sense" >>)
    ELSE IF relation = "ontop" /\ dstObj.form = "ball"
    THEN Throw(<< "you can not put objects on balls" >>)
    ELSE IF relation \in {"inside", "ontop"} /\ srcQuantifier \in {"the", "any"}
            /\ dstQuantifier = "all"
    THEN Throw(<< "\"", srcQuantifier, " ... ", relation, " all\" doesn't make sense" >>)
    ELSE IF relation \in {"inside", "ontop"} /\ srcQuantifier = "all" /\ dstQuantifier = "the"
    THEN Throw(<< "\"all ... ", relation, " the\" doesn't make sense" >>)
    ELSE Return(TRUE)

\* leftof, rightof, ontop, under, beside, above: the tests against a
\* reference without a position
leftof(objId, pos) == Throw(<< "left of \"", objId, "\" doesn't make sense" >>)

rightof(objId, pos) == Throw(<< "right of \"", objId, "\" doesn't make sense" >>)

ontop(objId, pos) ==
    IF objId = "floor" THEN Return("posInStack" \in DOMAIN pos /\ pos.posInStack = 0)
    ELSE Throw(<< "on top \"", objId, "\" doesn't make sense" >>)

under(objId, pos) == Throw(<< "under \"", objId, "\" doesn't make sense" >>)

beside(objId, pos) == Throw(<< "beside \"", objId, "\" doesn't make sense" >>)

above(objId, pos) == Throw(<< "above \"", objId, "\" doesn't make sense" >>)

\* test.test(x, y) of the ObjectPositionTest that findLocations builds for
\* the relation and the reference x; a comparison with the undefined stack
\* of a y without position is false
test(relation, state, x, y) ==
    IF "stack" \notin DOMAIN x
    THEN CASE relation = "leftof" -> leftof(x.objId, y)
           [] relation = "rightof" -> rightof(x.objId, y)
           [] relation \in {"inside", "ontop"} -> ontop(x.objId, y)
           [] relation = "under" -> under(x.objId, y)
           [] relation = "beside" -> beside(x.objId, y)
           [] relation = "above" -> above(x.objId, y)
    ELSE IF "stack" \notin DOMAIN y THEN Return(FALSE)
    ELSE CASE relation = "leftof" -> Return(y.stack < x.stack /\ x.stack # 0)
           [] relation = "rightof" ->
                Return(y.stack > x.stack /\ x.stack # Len(state.stacks) - 1)
           [] relation \in {"inside", "ontop"} ->
                Return(y.stack = x.stack /\ y.posInStack - 1 = x.posInStack)
           [] relation = "under" -> Return(y.stack = x.stack /\ y.posInStack < x.posInStack)
           [] relation = "beside" -> Return(Abs(y.stack - x.stack) = 1)
           [] relation = "above" -> Return(y.stack = x.stack /\ y.posInStack > x.posInStack)

\* ands.every(test => test.test(test.pos, obj)) from the i-th test on
RECURSIVE every(_, _, _, _)
every(ands, i, state, obj) ==
    IF i > Len(ands) THEN Return(TRUE)
    ELSE Outcome({IF Threw(holds) THEN holds
                  ELSE IF ~holds.val THEN Return(FALSE) ELSE every(ands, i + 1, state, obj) :
                  holds \in {test(ands[i].relation, state, ands[i].pos, obj)}})

\* orTests.some(ands => ands.every(...)) from the i-th list of tests on
RECURSIVE some(_, _, _, _)
some(orTests, i, state, obj) ==
    IF i > Len(orTests) THEN Return(FALSE)
    ELSE Outcome({IF Threw(holds) THEN holds
                  ELSE IF holds.val THEN Return(TRUE) ELSE some(orTests, i + 1, state, obj) :
                  holds \in {every(orTests[i], 1, state, obj)}})

\* objs.filter(obj => orTests.some(...)) from the i-th object on
RECURSIVE filter(_, _, _, _)
filter(objs, i, orTests, state) ==
    IF i > Len(objs) THEN Return(<< >>)
    ELSE Outcome({IF Threw(keep) THEN keep
                  ELSE Outcome({IF Threw(rest) THEN rest
                           ELSE Return(IF keep.val THEN << objs[i] >> \o rest.val ELSE rest.val) :
                           rest \in {filter(objs, i + 1, orTests, state)}}) :
                  keep \in {some(orTests, 1, state, objs[i])}})

RECURSIVE validObjs(_, _)
RECURSIVE findLocations(_, _, _, _)

\* the list findEntities hands to checkQuantifier: validObjs with a location
\* restriction, objs without
validObjs(entity, state) ==
    IF Restricted(entity.object)
    THEN Outcome({IF Threw(orTests) THEN orTests
                  ELSE Outcome({IF Threw(objs) THEN objs
                           ELSE filter(objs.val, 1, orTests.val, state) :
                           objs \in {findObjects(entity.object.object, state)}}) :
                  orTests \in {findLocations(entity.quantifier, entity.object.object,
                            entity.object.location, state)}})
    ELSE findObjects(entity.object, state)

findEntities(entity, state) ==
    Outcome({IF Threw(objs) THEN objs
             ELSE checkQuantifier(entity.quantifier, objs.val) :
             objs \in {validObjs(entity, state)}})

\* entity.object, or entity.object.object under a location restriction
described(entity) ==
    IF Restricted(entity.object) THEN entity.object.object ELSE entity.object

findLocations(srcQuantifier, srcObj, location, state) ==
    Outcome({IF Threw(ok) THEN ok
             ELSE Outcome({IF Threw(refss) THEN refss
                      ELSE IF location.relation \notin Relations THEN Return(<< >>)
                      ELSE Return([i \in 1..Len(refss.val) |->
                                      [j \in 1..Len(refss.val[i]) |->
                                          [pos |-> refss.val[i][j],
                                           relation |-> location.relation]]]) :
                      refss \in {findEntities(location.entity, state)}}) :
             ok \in {checkRelationInUtterence(srcQuantifier, srcObj, location.relation,
                                  location.entity.quantifier, described(location.entity))}})

combineOneToAllUnfiltered(relation, left, rightss, state) ==
    LET ands(rights) ==
            [i \in 1..Len(rights) |-> Literal(relation, << left.objId, rights[i].objId >>)]
        NonEmpty(conjunction) == Len(conjunction) > 0
    IN  Return(SelectSeq([i \in 1..Len(rightss) |-> ands(rightss[i])], NonEmpty))

combineOneToAllKeepsEmpty(relation, left, rightss, state) ==
    LET Passing(right) ==
            checkPhysics(left.objId, Lookup(state.objects, left.objId), relation,
                         right.objId, Lookup(state.objects, right.objId)) = Return(TRUE)
        ands(rights) ==
            [i \in 1..Len(rights) |-> Literal(relation, << left.objId, rights[i].objId >>)]
    IN  Return([i \in 1..Len(rightss) |-> ands(SelectSeq(rightss[i], Passing))])

\* combineOneToAll; an error checkPhysics throws for one of the pairs (the
\* floor as subject against another, defined object) leaves the function
combineOneToAll(relation, left, rightss, state) ==
    LET src_obj == Lookup(state.objects, left.objId)
        dest_obj(right) == Lookup(state.objects, right.objId)
        check(right) == checkPhysics(left.objId, src_obj, relation, right.objId, dest_obj(right))
        Throws(right) == Threw(check(right))
        Passes(right) == check(right).val
        ands(rights) ==
            [i \in 1..Len(rights) |-> Literal(relation, << left.objId, rights[i].objId >>)]
        NonEmpty(conjunction) == Len(conjunction) > 0
    IN  IF \E i \in 1..Len(rightss) : \E j \in 1..Len(rightss[i]) : Throws(rightss[i][j])
        THEN TypeError
        ELSE Return(SelectSeq([i \in 1..Len(rightss) |-> ands(SelectSeq(rightss[i], Passes))],
                              NonEmpty))

takeOrsOnlyFirst(subjects, i) ==
    IF i > Len(subjects) THEN Return(<< >>)
    ELSE IF Len(subjects[i]) = 0 THEN TypeError
    ELSE Return(<< << Literal("holding", << subjects[i][1].objId >>) >> >>)

\* for(var subs of subjects) ors.push([holding(subs[0].objId)]), from the i-th subject on
RECURSIVE takeOrs(_, _)
takeOrs(subjects, i) ==
    IF i > Len(subjects) THEN Return(<< >>)
    ELSE IF Len(subjects[i]) = 0 THEN TypeError
    ELSE Outcome({IF Threw(rest) THEN rest
                  ELSE Return(<< << Literal("holding", << subjects[i][1].objId >>) >> >> \o rest.val) :
                  rest \in {takeOrs(subjects, i + 1)}})

\* for(var subs of subjects) ors = ors.concat(combineOneToAll(relation, subs[0], destss, state)),
\* from the i-th subject on
RECURSIVE moveOrs(_, _, _, _, _)
moveOrs(relation, subjects, i, destss, state) ==
    IF i > Len(subjects) THEN Return(<< >>)
    ELSE IF Len(subjects[i]) = 0 THEN TypeError
    ELSE Outcome({IF Threw(ors) THEN ors
                  ELSE Outcome({IF Threw(rest) THEN rest
                           ELSE Return(ors.val \o rest.val) :
                           rest \in {moveOrs(relation, subjects, i + 1, destss, state)}}) :
                  ors \in {combineOneToAll(relation, subjects[i][1], destss, state)}})

heldSubjectsUnchecked(srcObj, state) ==
    IF srcObj.form = "floor" THEN Throw(<< "Håller du på att lägga nytt golv?" >>)
    ELSE Return(<< << [objId |-> state.holding, stack |-> -1, posInStack |-> -1] >> >>)

\* the subjects of a put command
heldSubjects(srcObj, state) ==
    IF srcObj.form = "floor" THEN Throw(<< "Håller du på att lägga nytt golv?" >>)
    ELSE IF state.holding = NULL THEN Throw(<< "we aren't holding anything" >>)
    ELSE Return(<< << [objId |-> state.holding, stack |-> -1, posInStack |-> -1] >> >>)

checkCommandTakeOnly(cmd) ==
    IF cmd.command = "take" /\ cmd.entity.quantifier = "all"
    THEN Throw(<< "we can't pick up more than one object" >>)
    ELSE IF cmd.command = "take" /\ described(cmd.entity).form = "floor"
    THEN Throw(<< "'Take the floor' does not make sense" >>)
    ELSE Return(TRUE)

checkCommandMoveOnly(cmd) ==
    IF cmd.command = "move"
    THEN checkRelationInUtterence(cmd.entity.quantifier, described(cmd.entity),
                                  cmd.location.relation, cmd.location.entity.quantifier,
                                  described(cmd.location.entity))
    ELSE Return(TRUE)

\* the checks of interpretCommand before it looks for the subjects
checkCommand(cmd) ==
    IF cmd.command = "take" /\ cmd.entity.quantifier = "all"
    THEN Throw(<< "we can't pick up more than one object" >>)
    ELSE IF cmd.command = "take" /\ described(cmd.entity).form = "floor"
    THEN Throw(<< "'Take the floor' does not make sense" >>)
    ELSE IF cmd.command = "move"
    THEN checkRelationInUtterence(cmd.entity.quantifier, described(cmd.entity),
                                  cmd.location.relation, cmd.location.entity.quantifier,
                                  described(cmd.location.entity))
    ELSE Return(TRUE)

interpretCommand(cmd, state) ==
    Outcome({IF Threw(ok) THEN ok
             ELSE Outcome({IF Threw(subjects) THEN subjects
                           ELSE Outcome({IF Threw(ors) THEN ors
                                         ELSE IF Len(ors.val) = 0
                                         THEN Throw(<< "unable to interpret" >>)
                                         ELSE Return(ors.val) :
                                         ors \in {IF cmd.command = "take"
                                                  THEN takeOrs(subjects.val, 1)
                                                  ELSE Outcome({IF Threw(destss) THEN destss
                                                                ELSE moveOrs(cmd.location.relation,
                                                                             subjects.val, 1,
                                                                             destss.val, state) :
                                                                destss \in {findEntities(cmd.location.entity,
                                                                                         state)}})}}) :
                           subjects \in {IF cmd.command = "put"
                                         THEN heldSubjects(described(cmd.entity), state)
                                         ELSE findEntities(cmd.entity, state)}}) :
             ok \in {checkCommand(cmd)}})

(***************************************************************************)
(* The second module block of the file.  Its interpret, stringify and      *)
(* stringifyLiteral replace those of the first block on the Interpreter    *)
(* object; its private functions are its own.  Its checkQuantifier,        *)
(* findObjects, leftof, rightof, ontop, under, beside and above have the   *)
(* text of the first block's, and the operators above stand for both.      *)
(* A Position is an ObjectRef; a PositionTest is [pos, relation].          *)
(***************************************************************************)
\* x[0] of an empty list
NoPosition == [undefined |-> TRUE]

\* test.test(x, y) of the PositionTest that the second findLocations builds
\* for the relation and the position x
test_2(relation, x, y) ==
    IF "stack" \notin DOMAIN x
    THEN CASE relation = "leftof" -> leftof(x.objId, y)
           [] relation = "rightof" -> rightof(x.objId, y)
           [] relation \in {"inside", "ontop"} -> ontop(x.objId, y)
           [] relation = "under" -> under(x.objId, y)
           [] relation = "beside" -> beside(x.objId, y)
           [] relation = "above" -> above(x.objId, y)
    ELSE IF "stack" \notin DOMAIN y THEN Return(FALSE)
    ELSE CASE relation = "leftof" -> Return(y.stack < x.stack)
           [] relation = "rightof" -> Return(y.stack > x.stack)
           [] relation \in {"inside", "ontop"} ->
                Return(y.stack = x.stack /\ y.posInStack - 1 = x.posInStack)
           [] relation = "under" -> Return(y.stack = x.stack /\ y.posInStack < x.posInStack)
           [] relation = "beside" -> Return(Abs(y.stack - x.stack) = 1)
           [] relation = "above" -> Return(y.stack = x.stack /\ y.posInStack > x.posInStack)

\* tests.some(test => test.test(test.pos, obj)) from the i-th test on
RECURSIVE some_2(_, _, _)
some_2(tests, i, obj) ==
    IF i > Len(tests) THEN Return(FALSE)
    ELSE Outcome({IF Threw(holds) THEN holds
                  ELSE IF holds.val THEN Return(TRUE) ELSE some_2(tests, i + 1, obj) :
                  holds \in {test_2(tests[i].relation, tests[i].pos, obj)}})

\* objs.filter(obj => tests.some(...)) from the i-th object on
RECURSIVE filter_2(_, _, _)
filter_2(objs, i, tests) ==
    IF i > Len(objs) THEN Return(<< >>)
    ELSE Outcome({IF Threw(keep) THEN keep
                  ELSE Outcome({IF Threw(rest) THEN rest
                           ELSE Return(IF keep.val THEN << objs[i] >> \o rest.val ELSE rest.val) :
                           rest \in {filter_2(objs, i + 1, tests)}}) :
                  keep \in {some_2(tests, 1, objs[i])}})

RECURSIVE validObjs_2(_, _)
RECURSIVE findLocations_2(_, _)

\* the list the second findEntities hands to checkQuantifier
validObjs_2(entity, state) ==
    IF Restricted(entity.object)
    THEN Outcome({IF Threw(tests) THEN tests
                  ELSE Outcome({IF Threw(objs) THEN objs
                           ELSE filter_2(objs.val, 1, tests.val) :
                           objs \in {findObjects(entity.object.object, state)}}) :
                  tests \in {findLocations_2(entity.object.location, state)}})
    ELSE findObjects(entity.object, state)

findEntities_2(entity, state) ==
    Outcome({IF Threw(objs) THEN objs
             ELSE checkQuantifier(entity.quantifier, objs.val) :
             objs \in {validObjs_2(entity, state)}})

\* the second findLocations: one test per list of positions, against its
\* first position; aoe[0].stack of an empty list is a TypeError
findLocations_2(location, state) ==
    IF location.entity.quantifier = "all"
    THEN Throw(<< "\"all\" does not makes sense in this context" >>)
    ELSE IF location.relation = "inside" /\ described(location.entity).form # "box"
    THEN Throw(<< "\"inside ", described(location.entity).form, "\" does not make sense" >>)
    ELSE IF location.relation = "ontop" /\ described(location.entity).form = "ball"
    THEN Throw(<< "you can not put objects on balls" >>)
    ELSE Outcome({IF Threw(positions) THEN positions
                  ELSE IF location.relation \notin Relations THEN Return(<< >>)
                  ELSE IF \E i \in 1..Len(positions.val) : Len(positions.val[i]) = 0
                  THEN TypeError
                  ELSE Return([i \in 1..Len(positions.val) |->
                                  [pos |-> positions.val[i][1],
                                   relation |-> location.relation]]) :
                  positions \in {findEntities_2(location.entity, state)}})

\* combine with lefts.length === 1: a conjunction of one literal for every
\* right that is another object and is the floor or is not rejected; it reads
\* right.objId of an undefined right, and src_obj.size of an undefined
\* src_obj (the floor as left) once the relation is inside, ontop or under
\* and the right is another object with a position
combineOne(relation, left, rights, state) ==
    LET src_obj == Lookup(state.objects, left.objId)
        dest_obj(right) == Lookup(state.objects, right.objId)
        Compared(right) ==
            /\ left.objId # right.objId
            /\ "stack" \in DOMAIN right
            /\ relation \in {"inside", "ontop", "under"}
        Throws(right) ==
            \/ "objId" \notin DOMAIN right
            \/ Compared(right) /\ src_obj = UNDEFINED
        Rejected(right) ==
            /\ Compared(right)
            /\ \/ src_obj.size = "large" /\ dest_obj(right).size = "small"
               \/ src_obj.form = "ball" /\ dest_obj(right).form \notin {"floor", "box"}
        Pushed(right) == left.objId # right.objId /\ ~Rejected(right)
        passing == SelectSeq(rights, Pushed)
    IN  IF \E i \in 1..Len(rights) : Throws(rights[i]) THEN TypeError
        ELSE Return([i \in 1..Len(passing) |->
                        << Literal(relation, << left.objId, passing[i].objId >>) >>])

\* r.splice(i, 1) of a copy of rights, i counted from 1
Spliced(rights, i) == SubSeq(rights, 1, i - 1) \o SubSeq(rights, i + 1, Len(rights))

RECURSIVE combine(_, _, _, _)
RECURSIVE combineRights(_, _, _, _, _)

\* combine with lefts.length # 1, after left = lefts.pop(): the loop over
\* the rights from the i-th down to the first; lefts is the list before the pop
combineRights(relation, lefts, rights, i, state) ==
    IF i < 1 THEN Return(<< >>)
    ELSE Outcome({IF Threw(dnf) THEN dnf
                  ELSE IF Len(dnf.val) > 0 /\ (Len(lefts) = 0 \/ "objId" \notin DOMAIN rights[i])
                  THEN TypeError
                  ELSE Outcome({IF Threw(rest) THEN rest
                           ELSE Return([k \in 1..Len(dnf.val) |->
                                           Append(dnf.val[k],
                                                  Literal(relation, << lefts[Len(lefts)].objId,
                                                                       rights[i].objId >>))]
                                       \o rest.val) :
                           rest \in {combineRights(relation, lefts, rights, i - 1, state)}}) :
                  dnf \in {combine(relation, SubSeq(lefts, 1, Len(lefts) - 1),
                                   Spliced(rights, i), state)}})

combine(relation, lefts, rights, state) ==
    IF Len(lefts) = 1 THEN combineOne(relation, lefts[1], rights, state)
    ELSE combineRights(relation, lefts, rights, Len(rights), state)

\* for(var subs of subjects) ors.push([holding(subs[0].objId)]) of the second
\* interpretCommand, from the i-th list on
RECURSIVE takeOrs_2(_, _)
takeOrs_2(subjects, i) ==
    IF i > Len(subjects) THEN Return(<< >>)
    ELSE IF Len(subjects[i]) = 0 THEN TypeError
    ELSE Outcome({IF Threw(rest) THEN rest
                  ELSE Return(<< << Literal("holding", << subjects[i][1].objId >>) >> >> \o rest.val) :
                  rest \in {takeOrs_2(subjects, i + 1)}})

\* for(var subs of subjects) ors = ors.concat(combine(relation, subs, dests, state)),
\* from the i-th list on
RECURSIVE moveOrs_2(_, _, _, _, _)
moveOrs_2(relation, subjects, i, dests, state) ==
    IF i > Len(subjects) THEN Return(<< >>)
    ELSE Outcome({IF Threw(ors) THEN ors
                  ELSE Outcome({IF Threw(rest) THEN rest
                           ELSE Return(ors.val \o rest.val) :
                           rest \in {moveOrs_2(relation, subjects, i + 1, dests, state)}}) :
                  ors \in {combine(relation, subjects[i], dests, state)}})

\* findEntities(cmd.location.entity, state).map(x => x[0])
firsts(destss) ==
    [i \in 1..Len(destss) |-> IF Len(destss[i]) = 0 THEN NoPosition ELSE destss[i][1]]

\* the subjects of a put command in the second interpretCommand
heldSubjects_2(state) ==
    IF state.holding = NULL THEN Throw(<< "we aren't holding anything" >>)
    ELSE Return(<< << [objId |-> state.holding, stack |-> -1, posInStack |-> -1] >> >>)

interpretCommand_2(cmd, state) ==
    IF cmd.command = "take" /\ cmd.entity.quantifier = "all"
    THEN Throw(<< "we can't pick up more than one object" >>)
    ELSE Outcome({IF Threw(subjects) THEN subjects
                  ELSE Outcome({IF Threw(ors) THEN ors
                                ELSE IF Len(ors.val) = 0
                                THEN Throw(<< "unable to interpret" >>)
                                ELSE Return(ors.val) :
                                ors \in {IF cmd.command = "take"
                                         THEN takeOrs_2(subjects.val, 1)
                                         ELSE Outcome({IF Threw(destss) THEN destss
                                                       ELSE moveOrs_2(cmd.location.relation,
                                                                      subjects.val, 1,
                                                                      firsts(destss.val), state) :
                                                       destss \in {findEntities_2(cmd.location.entity,
                                                                                  state)}})}}) :
                  subjects \in {IF cmd.command = "put" THEN heldSubjects_2(state)
                                ELSE findEntities_2(cmd.entity, state)}})

(***************************************************************************)
(* Interpreter.interpret on small worlds and commands                      *)
(***************************************************************************)
InterpCols == 2

\* the objects on the stacks or in the arm; the table c is defined but absent
InterpIds == {"a", "b", "d"}

InterpWorlds ==
    {[stacks |-> w.stacks, holding |-> w.holding, arm |-> w.arm, objects |-> Catalog] :
        w \in {w \in Worlds(InterpIds, InterpCols) : w.arm = 0}}

Quantifiers == {"the", "any", "all"}

Object(form, size, color) == [form |-> form, size |-> size, color |-> color]

\* "object", "ball", "red object", "table", "floor"
Descriptions ==
    {Object("anyform", NULL, NULL), Object("ball", NULL, NULL), Object("anyform", NULL, "red"),
     Object("table", NULL, NULL), Object("floor", NULL, NULL)}

Entity(quantifier, object) == [quantifier |-> quantifier, object |-> object]

SimpleEntities == {Entity(q, o) : q \in Quantifiers, o \in Descriptions}

\* entities with a location restriction: "any ball beside the red object"
RestrictedEntities ==
    {Entity(q, [object |-> o, location |-> [relation |-> r, entity |-> e]]) :
        q \in Quantifiers,
        o \in {Object("anyform", NULL, NULL), Object("ball", NULL, NULL),
               Object("anyform", NULL, "red")},
        r \in Relations,
        e \in {e \in SimpleEntities : e.object.form # "anyform"}}

TakeCommands ==
    {[command |-> "take", entity |-> e] : e \in SimpleEntities \cup RestrictedEntities}

MoveCommands ==
    {[command |-> "move", entity |-> e, location |-> [relation |-> r, entity |-> d]] :
        e \in SimpleEntities, r \in Relations, d \in SimpleEntities}

\* a put command names "it": the entity it carries is not looked up
PutCommands ==
    {[command |-> "put", entity |-> e, location |-> [relation |-> r, entity |-> d]] :
        e \in {Entity("the", Object("ball", NULL, NULL)), Entity("the", Object("floor", NULL, NULL))},
        r \in Relations, d \in SimpleEntities}

\* commands with a restricted subject or destination
NestedCommands ==
    {[command |-> "move", entity |-> e,
      location |-> [relation |-> "leftof", entity |-> Entity("the", Object("ball", NULL, NULL))]] :
        e \in {e \in RestrictedEntities : e.object.location.relation \in {"beside", "ontop"}}}
    \cup
    {[command |-> "move", entity |-> Entity("the", Object("ball", NULL, NULL)),
      location |-> [relation |-> "leftof", entity |-> d]] :
        d \in {e \in RestrictedEntities : e.object.location.relation \in {"beside", "ontop"}}}

\* "move ... inside ... box" for every pair of quantifiers
InsideCommands ==
    {[command |-> "move", entity |-> Entity(q, Object("anyform", NULL, NULL)),
      location |-> [relation |-> "inside", entity |-> Entity(p, Object("box", NULL, NULL))]] :
        q \in Quantifiers, p \in Quantifiers}

Commands ==
    TakeCommands \cup MoveCommands \cup PutCommands \cup NestedCommands \cup InsideCommands

\* the commands of the calls with two parses
PairCommands ==
    {c \in TakeCommands \cup MoveCommands :
        /\ ~Restricted(c.entity.object)
        /\ c.entity.object.form \in {"ball", "table"} \/ c.entity.object.color = "red"
        /\ c.command = "move" =>
              /\ c.location.relation \in {"ontop", "beside"}
              /\ c.location.entity = Entity("the", Object("floor", NULL, NULL))
        /\ c.entity.quantifier # "any"}

ParseLists == {<< [parse |-> c] >> : c \in Commands}

ParsePairs == {<< [parse |-> c1], [parse |-> c2] >> : c1 \in PairCommands, c2 \in PairCommands}

\* the variables of the planner and the search while no plan is made
NoPlanner ==
    /\ container = NULL /\ graph = NULL /\ mem = << >> /\ world = NULL /\ input = NULL /\ interps = << >>
    /\ plans = << >>
    /\ start = NULL /\ queue = << >> /\ costs = EmptyDictionary /\ paths = EmptyDictionary
    /\ node = NULL /\ result = NULL

\* the two module blocks of the file that define interpret: loaded whole,
\* the file leaves the second block's interpret on the Interpreter object;
\* the first block's is the one its own lines define
Blocks == {"first", "second"}

\* the state when the interpret of a module block is called with a world of W
\* and a list of parses of L
InterpretCall(W, L) ==
    /\ block \in Blocks
    /\ currentState \in W
    /\ parses \in L
    /\ interpretations = << >>
    /\ errors = << >>
    /\ idx = 1
    /\ outcome = Unset
    /\ pc = "interpret"
    /\ checked = NULL /\ legal = NULL
    /\ NoPlanner

InitInterpret == InterpretCall(InterpWorlds, ParseLists)

\* first block: one call of the forEach callback that reaches interpretations.push(result)
InterpretPush ==
    /\ pc = "interpret"
    /\ block = "first"
    /\ idx <= Len(parses)
    /\ \E r \in {interpretCommand(parses[idx].parse, currentState)} :
          /\ ~Threw(r)
          /\ interpretations' =
                Append(interpretations, [parse |-> parses[idx].parse, interpretation |-> r.val])
    /\ idx' = idx + 1
    /\ UNCHANGED <<container, graph, mem, pc, searchVars, world, input, interps, plans, errors, outcome,
                   block, parses, currentState, checked, legal>>

\* first block: one call of the forEach callback that ends in the catch
InterpretCatch ==
    /\ pc = "interpret"
    /\ block = "first"
    /\ idx <= Len(parses)
    /\ \E r \in {interpretCommand(parses[idx].parse, currentState)} :
          /\ Threw(r)
          /\ errors' = Append(errors, r.err)
    /\ idx' = idx + 1
    /\ UNCHANGED <<container, graph, mem, pc, searchVars, world, input, interps, plans, outcome,
                   block, parses, currentState, interpretations, checked, legal>>

\* first block, after the forEach: return the interpretations or throw the first error
InterpretReturn ==
    /\ pc = "interpret"
    /\ block = "first"
    /\ idx > Len(parses)
    /\ outcome' = IF Len(interpretations) > 0 THEN [returned |-> interpretations]
                  ELSE [thrown |-> errors[1]]
    /\ pc' = "done"
    /\ UNCHANGED <<container, graph, mem, searchVars, world, input, interps, idx, plans, errors,
                   block, parses, currentState, interpretations, checked, legal>>

\* second block: one call of the forEach callback that reaches interpretations.push(result)
InterpretPush_2 ==
    /\ pc = "interpret"
    /\ block = "second"
    /\ idx <= Len(parses)
    /\ \E r \in {interpretCommand_2(parses[idx].parse, currentState)} :
          /\ ~Threw(r)
          /\ interpretations' =
                Append(interpretations, [parse |-> parses[idx].parse, interpretation |-> r.val])
    /\ idx' = idx + 1
    /\ UNCHANGED <<container, graph, mem, pc, searchVars, world, input, interps, plans, errors, outcome,
                   block, parses, currentState, checked, legal>>

\* second block: one call of the forEach callback that ends in the catch
InterpretCatch_2 ==
    /\ pc = "interpret"
    /\ block = "second"
    /\ idx <= Len(parses)
    /\ \E r \in {interpretCommand_2(parses[idx].parse, currentState)} :
          /\ Threw(r)
          /\ errors' = Append(errors, r.err)
    /\ idx' = idx + 1
    /\ UNCHANGED <<container, graph, mem, pc, searchVars, world, input, interps, plans, outcome,
                   block, parses, currentState, interpretations, checked, legal>>

\* second block, after the forEach: return the interpretations or throw the first error
InterpretReturn_2 ==
    /\ pc = "interpret"
    /\ block = "second"
    /\ idx > Len(parses)
    /\ outcome' = IF Len(interpretations) > 0 THEN [returned |-> interpretations]
                  ELSE [thrown |-> errors[1]]
    /\ pc' = "done"
    /\ UNCHANGED <<container, graph, mem, searchVars, world, input, interps, idx, plans, errors,
                   block, parses, currentState, interpretations, checked, legal>>

NextInterpret ==
    \/ InterpretPush
    \/ InterpretCatch
    \/ InterpretReturn
    \/ InterpretPush_2
    \/ InterpretCatch_2
    \/ InterpretReturn_2

InterpretSpec == InitInterpret /\ [][NextInterpret]_vars

(***************************************************************************)
(* The two drivers on lists of two candidates                              *)
(***************************************************************************)
\* two formulas of one literal each
PlanPairs ==
    {<< f1, f2 >> : f1 \in {<< << l >> >> : l \in Literals(PlanIds)},
                    f2 \in {<< << l >> >> : l \in Literals(PlanIds)}}

InitDrivers == PlanCall(PlanWorlds, PlanPairs) \/ InterpretCall(InterpWorlds, ParsePairs)

NextDrivers == NextPlan \/ NextInterpret

DriversSpec == InitDrivers /\ [][NextDrivers]_vars

\* the interpretCommand that the interpret of the module block b calls
interpretCommandOf(b, cmd, state) ==
    IF b = "first" THEN interpretCommand(cmd, state) ELSE interpretCommand_2(cmd, state)

\* the findEntities of the module block b, and the list it hands to checkQuantifier
findEntitiesOf(b, entity, state) ==
    IF b = "first" THEN findEntities(entity, state) ELSE findEntities_2(entity, state)

validObjsOf(b, entity, state) ==
    IF b = "first" THEN validObjs(entity, state) ELSE validObjs_2(entity, state)

\* outgoingEdges throws in the planning state s: an object is held over a
\* column that is neither empty nor full
EdgesThrowIn(s) ==
    /\ s.holding # NULL
    /\ Len(s.stacks[s.arm + 1]) > 0
    /\ Len(s.stacks[s.arm + 1]) < Len(s.stacks)

\* the planning states a search from the states of S can come to: legal
\* robot actions lead on from every state in which outgoingEdges returns
RECURSIVE Explored(_, _)
Explored(objects, S) ==
    CHOOSE r \in
        {IF N = S THEN S ELSE Explored(objects, N) :
         N \in {S \cup {Apply(q[1], q[2]) :
                        q \in {q \in S \X {"l", "r", "p", "d"} :
                                  ~EdgesThrowIn(q[1]) /\ Legal(objects, q[1], q[2])}}}} :
        TRUE

\* C11: Planner.plan and Interpreter.interpret return exactly the candidates
\* that succeed, in input order, whatever fails before or after them; they
\* throw if and only if no candidate succeeds, and then they throw the error
\* of the first candidate; so does the interpret of either module block.  A planned candidate ends in one of three ways,
\* O[i]: with a plan, which takes a state satisfying its formula among the
\* states the search can come to; with "that's impossible", when there is no
\* such state and outgoingEdges throws in none of them; or with the error
\* outgoingEdges throws in one of them.  Equal candidates end the same way.
C11_FailureIsolation ==
    pc = "done" =>
        /\ Len(interps) > 0 =>
              \E seen \in {Explored(world.objects, {input})} :
              \E O \in [1..Len(interps) -> {"plan", "that's impossible", NotAFunction}] :
                 LET Ok(i) == O[i] = "plan"
                     Failed(i) == O[i] # "plan"
                     S == SelectSeq([i \in 1..Len(interps) |-> i], Ok)
                     F == SelectSeq([i \in 1..Len(interps) |-> i], Failed)
                 IN  /\ \A i \in 1..Len(interps) :
                           /\ O[i] = "plan" => \E s \in seen : Satisfied(interps[i], s)
                           /\ O[i] = "that's impossible" =>
                                 \A s \in seen : ~Satisfied(interps[i], s) /\ ~EdgesThrowIn(s)
                           /\ O[i] = NotAFunction => \E s \in seen : EdgesThrowIn(s)
                     /\ \A i, j \in 1..Len(interps) : interps[i] = interps[j] => O[i] = O[j]
                     /\ errors = [k \in 1..Len(F) |-> O[F[k]]]
                     /\ IF Len(S) > 0
                        THEN /\ DOMAIN outcome = {"returned"}
                             /\ Len(outcome.returned) = Len(S)
                             /\ \A k \in 1..Len(S) :
                                   outcome.returned[k].interpretation = interps[S[k]]
                        ELSE /\ DOMAIN outcome = {"thrown"}
                             /\ outcome.thrown = O[1]
        /\ Len(parses) > 0 =>
              LET Interpreted(i) == interpretCommandOf(block, parses[i].parse, currentState)
                  Ok(i) == ~Threw(Interpreted(i))
              IN  \E S \in {SelectSeq([i \in 1..Len(parses) |-> i], Ok)} :
                     IF Len(S) > 0
                     THEN /\ DOMAIN outcome = {"returned"}
                          /\ outcome.returned =
                                [k \in 1..Len(S) |->
                                    [parse |-> parses[S[k]].parse,
                                     interpretation |-> Interpreted(S[k]).val]]
                     ELSE /\ DOMAIN outcome = {"thrown"}
                          /\ outcome.thrown = Interpreted(1).err

\* Planner.plan returned the second of two candidates after the first failed
C11_Witness ==
    /\ pc = "done"
    /\ Len(interps) = 2
    /\ Len(errors) = 1
    /\ DOMAIN outcome = {"returned"}
    /\ Len(outcome.returned) = 1
    /\ outcome.returned[1].interpretation = interps[2]
    /\ interps[1] # interps[2]

(***************************************************************************)
(* Properties of interpretCommand.  Unless it says otherwise a property is  *)
(* one of the first block's interpretCommand and of the functions it calls *)
(* (lines 104-466).                                                        *)
(***************************************************************************)
\* the interpret of either block is about to interpret the command Cmd
InterpretingAny == pc = "interpret" /\ idx <= Len(parses)

\* the first block's interpret is about to interpret the command Cmd
Interpreting == InterpretingAny /\ block = "first"

Cmd == parses[idx].parse

\* what the first block's interpretCommand makes of the command
Interpretation == interpretCommand(Cmd, currentState)

\* what the interpretCommand of the running block makes of the command
InterpretationOfBlock == interpretCommandOf(block, Cmd, currentState)

\* the literal l occurs in the conjunction
Occurs(l, conjunction) == \E j \in 1..Len(conjunction) : conjunction[j] = l

\* checkPhysics on two ObjectRefs of the world
Passes(relation, left, right) ==
    checkPhysics(left.objId, Lookup(currentState.objects, left.objId), relation,
                 right.objId, Lookup(currentState.objects, right.objId)) = Return(TRUE)

\* C12: a move command with an "all" subject that matches s1..sn, n >= 2,
\* and a destination that resolves to one object d, none of the pairs
\* (si, d) rejected by checkPhysics, returns one conjunction that holds
\* relation(si, d) for every si.
C12_AllSubjectsConstrained ==
    Interpreting /\ Cmd.command = "move" /\ Cmd.entity.quantifier = "all" =>
        \E subjects \in {findEntities(Cmd.entity, currentState)},
           destss \in {findEntities(Cmd.location.entity, currentState)},
           r \in {Interpretation} :
            (/\ ~Threw(subjects) /\ ~Threw(destss) /\ ~Threw(r)
             /\ Len(subjects.val[1]) >= 2
             /\ Len(destss.val) = 1 /\ Len(destss.val[1]) = 1
             /\ \A i \in 1..Len(subjects.val[1]) :
                   Passes(Cmd.location.relation, subjects.val[1][i], destss.val[1][1]))
            => /\ Len(r.val) = 1
               /\ \A i \in 1..Len(subjects.val[1]) :
                     Occurs(Literal(Cmd.location.relation,
                                    << subjects.val[1][i].objId, destss.val[1][1].objId >>),
                            r.val[1])

\* the identifiers on the stacks, columns left to right, each bottom to top
RECURSIVE ScanOrder(_)
ScanOrder(stacks) ==
    IF Len(stacks) = 0 THEN << >> ELSE Head(stacks) \o ScanOrder(Tail(stacks))

\* the object id of the world fits the description
Fits(objectDesc, id) ==
    /\ objectDesc.form \in {"anyform", currentState.objects[id].form}
    /\ objectDesc.size \in {NULL, currentState.objects[id].size}
    /\ objectDesc.color \in {NULL, currentState.objects[id].color}

\* ref1 comes before ref2 in the scan of the stacks
ScannedBefore(ref1, ref2) ==
    \/ ref1.stack < ref2.stack
    \/ ref1.stack = ref2.stack /\ ref1.posInStack < ref2.posInStack

\* C13: in either block, a take command with an "any" entity that matches
\* n >= 1 objects on the stacks returns n conjunctions, the k-th being the
\* one literal holding(x) of the k-th match x in the scan order of the stacks.
C13_TakeAnyOnePerMatch ==
    InterpretingAny /\ Cmd.command = "take" /\ Cmd.entity.quantifier = "any"
                    /\ described(Cmd.entity).form # "floor" =>
        \E matches \in {validObjsOf(block, Cmd.entity, currentState)},
           r \in {InterpretationOfBlock} :
            (~Threw(matches) /\ Len(matches.val) >= 1)
            => /\ ~Threw(r)
               /\ r.val = [k \in 1..Len(matches.val) |->
                              << Literal("holding", << matches.val[k].objId >>) >>]
               /\ \A k \in 1..Len(matches.val) - 1 :
                     ScannedBefore(matches.val[k], matches.val[k + 1])
               /\ ~Restricted(Cmd.entity.object) =>
                     [k \in 1..Len(matches.val) |-> matches.val[k].objId]
                        = LET FitsEntity(id) == Fits(Cmd.entity.object, id)
                          IN  SelectSeq(ScanOrder(currentState.stacks), FitsEntity)

\* the second block interpreted "take any red object" with the two red
\* objects on the stacks
C13_Witness ==
    /\ pc = "interpret" /\ block = "second" /\ idx = 2 /\ Len(interpretations) = 1
    /\ parses[1].parse.command = "take"
    /\ parses[1].parse.entity.quantifier = "any"
    /\ Len(interpretations[1].interpretation) = 2
    /\ interpretations[1].interpretation[1][1].args = << "d" >>
    /\ interpretations[1].interpretation[2][1].args = << "b" >>

\* the entity, and the restricting entity of its location restriction if it has one
WithRestricting(entity) ==
    IF Restricted(entity.object) THEN << entity, entity.object.location.entity >>
    ELSE << entity >>

\* the entities interpretCommand resolves for the command: the subject and
\* what restricts it unless the command is put, the destination and what
\* restricts it unless the command is take
Roles(cmd) ==
    (IF cmd.command # "put" THEN WithRestricting(cmd.entity) ELSE << >>)
    \o (IF cmd.command # "take" THEN WithRestricting(cmd.location.entity) ELSE << >>)

Ambiguous == Throw(<< "\"the\" is ambigous" >>)

\* C14: in either block, resolving a "the" entity whose description matches
\* more than one object fails with the ambiguity error, in every role of a
\* take, move or put command, and the command yields no formula.
C14_TheIsAmbiguous ==
    InterpretingAny =>
        \A i \in 1..Len(Roles(Cmd)) :
            \E entity \in {Roles(Cmd)[i]} :
                entity.quantifier = "the" =>
                    \E matches \in {validObjsOf(block, entity, currentState)} :
                        (~Threw(matches) /\ Len(matches.val) > 1)
                        => /\ findEntitiesOf(block, entity, currentState) = Ambiguous
                           /\ Threw(InterpretationOfBlock)

\* the catch of the second block's interpret received the ambiguity error of
\* a move command whose subject is unique and whose destination is a "the" entity
C14_Witness ==
    /\ pc = "interpret" /\ block = "second" /\ idx = 2
    /\ errors = << Ambiguous.err >>
    /\ parses[1].parse.command = "move"
    /\ parses[1].parse.entity = Entity("any", Object("ball", NULL, NULL))
    /\ parses[1].parse.location.entity.quantifier = "the"

\* the subjects of the command, one per group of the resolved subject
\* entity; the held object for a put command
SubjectsOf(cmd) ==
    IF cmd.command = "put" THEN Return(<< [objId |-> currentState.holding] >>)
    ELSE Outcome({IF Threw(groups) THEN groups
                  ELSE IF \E i \in 1..Len(groups.val) : Len(groups.val[i]) = 0 THEN TypeError
                  ELSE Return([i \in 1..Len(groups.val) |-> groups.val[i][1]]) :
                  groups \in {findEntities(cmd.entity, currentState)}})

\* relation(s, d) for the destinations d, in their order, that pass checkPhysics with s
PassingLiterals(relation, s, dests) ==
    LET PassesWith(d) == Passes(relation, s, d)
        passing == SelectSeq(dests, PassesWith)
    IN  [i \in 1..Len(passing) |-> Literal(relation, << s.objId, passing[i].objId >>)]

\* a move or put command with an "all" destination and no "all" subject
OneToAll(cmd) ==
    /\ cmd.command \in {"move", "put"}
    /\ cmd.location.entity.quantifier = "all"
    /\ cmd.command = "move" => cmd.entity.quantifier # "all"

\* C15 as stated: the formula a move or put command with an "all"
\* destination returns holds, for each subject, exactly one conjunction made
\* of relation(s, d) for every destination d that passes checkPhysics.
C15_OneConjunctionPerSubject ==
    Interpreting /\ OneToAll(Cmd) =>
        \E subjects \in {SubjectsOf(Cmd)},
           destss \in {findEntities(Cmd.location.entity, currentState)},
           r \in {Interpretation} :
            (~Threw(r) /\ ~Threw(subjects) /\ ~Threw(destss)) =>
                \A i \in 1..Len(subjects.val) :
                    Cardinality({k \in 1..Len(r.val) :
                                    r.val[k] = PassingLiterals(Cmd.location.relation,
                                                               subjects.val[i],
                                                               destss.val[1])}) = 1

\* the conjunctions of the subjects from the i-th on that have a passing destination
RECURSIVE PassingConjunctions(_, _, _, _)
PassingConjunctions(relation, subjects, i, dests) ==
    IF i > Len(subjects) THEN << >>
    ELSE (IF \E j \in 1..Len(dests) : Passes(relation, subjects[i], dests[j])
          THEN << PassingLiterals(relation, subjects[i], dests) >> ELSE << >>)
         \o PassingConjunctions(relation, subjects, i + 1, dests)

\* C15 amended: the formula is, in the order of the subjects, one
\* conjunction per subject that has a destination passing checkPhysics, made
\* of relation(s, d) for every passing destination d; a subject without a
\* passing destination has no conjunction.
C15_OneConjunctionPerPassingSubject ==
    Interpreting /\ OneToAll(Cmd) =>
        \E subjects \in {SubjectsOf(Cmd)},
           destss \in {findEntities(Cmd.location.entity, currentState)},
           r \in {Interpretation} :
            (~Threw(r) /\ ~Threw(subjects) /\ ~Threw(destss)) =>
                r.val = PassingConjunctions(Cmd.location.relation, subjects.val, 1,
                                            destss.val[1])

\* a move command with an "any" subject and an "all" destination that
\* matches two objects was interpreted, with fewer conjunctions than subjects
C15_Witness ==
    /\ pc = "interpret" /\ block = "first" /\ idx = 2 /\ Len(interpretations) = 1
    /\ parses[1].parse.command = "move"
    /\ parses[1].parse.entity.quantifier = "any"
    /\ parses[1].parse.location.entity = Entity("all", Object("anyform", NULL, "red"))
    /\ Len(interpretations[1].interpretation) = 2
    /\ Len(validObjs(parses[1].parse.entity, currentState).val) = 3

\* in the snapshot, the object at y stands in the relation to the object at
\* x, or to the floor if x has no position
StandsIn(relation, y, x) ==
    IF "stack" \notin DOMAIN x
    THEN relation \in {"ontop", "inside"} /\ x.objId = "floor" /\ y.posInStack = 0
    ELSE CASE relation = "leftof" -> y.stack < x.stack
           [] relation = "rightof" -> y.stack > x.stack
           [] relation \in {"ontop", "inside"} ->
                y.stack = x.stack /\ y.posInStack = x.posInStack + 1
           [] relation = "under" -> y.stack = x.stack /\ y.posInStack < x.posInStack
           [] relation = "above" -> y.stack = x.stack /\ y.posInStack > x.posInStack
           [] relation = "beside" -> y.stack - x.stack \in {-1, 1}

\* C16: every object selected by an entity with a location restriction
\* stands in the restriction's relation to at least one object that matches
\* the restricting entity, and to every one of them if that entity is
\* quantified "all"; nothing is selected if the restricting entity matches
\* no object.
C16_SelectedStandInRelation ==
    Interpreting =>
        \A i \in 1..Len(Roles(Cmd)) :
            \E entity \in {Roles(Cmd)[i]} :
                Restricted(entity.object) =>
                    \E selected \in {findEntities(entity, currentState)},
                       matches \in {validObjs(entity.object.location.entity, currentState)} :
                        (~Threw(selected) /\ ~Threw(matches)) =>
                            \A g \in 1..Len(selected.val) :
                                \A k \in 1..Len(selected.val[g]) :
                                    /\ \E m \in 1..Len(matches.val) :
                                          StandsIn(entity.object.location.relation,
                                                   selected.val[g][k], matches.val[m])
                                    /\ entity.object.location.entity.quantifier = "all" =>
                                          \A m \in 1..Len(matches.val) :
                                              StandsIn(entity.object.location.relation,
                                                       selected.val[g][k], matches.val[m])

\* the objects of all groups of a resolved entity
RECURSIVE Flat(_)
Flat(groups) == IF Len(groups) = 0 THEN << >> ELSE Head(groups) \o Flat(Tail(groups))

\* C17: a formula interpretCommand returns has a conjunction, and each of
\* its conjunctions has a literal; the call throws when the subject or the
\* destination resolves to no object and when no pair of a subject and a
\* destination passes checkPhysics.
C17_NoEmptyFormula ==
    Interpreting =>
        \E r \in {Interpretation} :
            /\ ~Threw(r) =>
                  /\ Len(r.val) > 0
                  /\ \A k \in 1..Len(r.val) : Len(r.val[k]) > 0
            /\ Cmd.command # "put" =>
                  \E subjects \in {findEntities(Cmd.entity, currentState)} :
                      (~Threw(subjects) /\ Len(Flat(subjects.val)) = 0) => Threw(r)
            /\ Cmd.command # "take" =>
                  \E destss \in {findEntities(Cmd.location.entity, currentState)} :
                      /\ (~Threw(destss) /\ Len(Flat(destss.val)) = 0) => Threw(r)
                      /\ \E subjects \in {SubjectsOf(Cmd)} :
                            (/\ ~Threw(destss) /\ ~Threw(subjects)
                             /\ \A i \in 1..Len(subjects.val) :
                                   \A j \in 1..Len(Flat(destss.val)) :
                                       ~Passes(Cmd.location.relation, subjects.val[i],
                                               Flat(destss.val)[j]))
                            => Threw(r)

\* a move command whose subject and destination both match objects failed
\* because checkPhysics rejected every pair
C17_Witness ==
    /\ pc = "interpret" /\ block = "first" /\ idx = 2
    /\ errors = << << "unable to interpret" >> >>
    /\ parses[1].parse.command = "move"
    /\ \E subjects \in {findEntities(parses[1].parse.entity, currentState)},
          destss \in {findEntities(parses[1].parse.location.entity, currentState)} :
           /\ ~Threw(subjects) /\ Len(Flat(subjects.val)) > 0
           /\ ~Threw(destss) /\ Len(Flat(destss.val)) > 1

\* C18: a take command with an "all" entity, or whose object is the floor,
\* throws in every world; a formula a take command returns is made of
\* literals holding(x) with one argument and polarity true.
C18_TakeChecks ==
    Interpreting /\ Cmd.command = "take" =>
        \E r \in {Interpretation} :
            /\ (Cmd.entity.quantifier = "all" \/ described(Cmd.entity).form = "floor")
                  => Threw(r)
            /\ ~Threw(r) =>
                  \A k \in 1..Len(r.val) : \A j \in 1..Len(r.val[k]) :
                      /\ r.val[k][j].relation = "holding"
                      /\ Len(r.val[k][j].args) = 1
                      /\ r.val[k][j].polarity

\* "take the floor" and "take all red objects" were refused
C18_Witness ==
    /\ pc = "interpret" /\ block = "first" /\ idx = 2
    /\ parses[1].parse.command = "take"
    /\ \/ /\ errors = << << "'Take the floor' does not make sense" >> >>
          /\ parses[1].parse.entity.quantifier = "the"
       \/ /\ errors = << << "we can't pick up more than one object" >> >>
          /\ parses[1].parse.entity.object = Object("anyform", NULL, "red")

\* C19: in either block, a put command throws while the arm holds nothing;
\* while the arm holds h, the first argument of every literal of the
\* formula it returns is h, and the outcome is the same whichever entity
\* (other than the floor) the command carries.
C19_PutMovesHeldObject ==
    InterpretingAny /\ Cmd.command = "put" =>
        \E r \in {InterpretationOfBlock} :
            /\ currentState.holding = NULL => Threw(r)
            /\ ~Threw(r) =>
                  \A k \in 1..Len(r.val) : \A j \in 1..Len(r.val[k]) :
                      r.val[k][j].args[1] = currentState.holding
            /\ described(Cmd.entity).form # "floor" =>
                  \A e \in SimpleEntities :
                      described(e).form # "floor" =>
                          interpretCommandOf(block, [Cmd EXCEPT !.entity = e],
                                             currentState) = r

\* the second block interpreted "put the ball left of ..." while the arm held the box b
C19_Witness ==
    /\ pc = "interpret" /\ block = "second" /\ idx = 2
    /\ parses[1].parse.command = "put"
    /\ parses[1].parse.entity.object.form = "ball"
    /\ currentState.holding = "b"
    /\ Len(interpretations) = 1
    /\ interpretations[1].interpretation[1][1].args[1] = "b"

(***************************************************************************)
(* checkPhysics as a function of its arguments                             *)
(***************************************************************************)
\* the object definitions checkPhysics is given: every form, size and two colours
ObjectDefinitions ==
    [form : {"brick", "plank", "ball", "pyramid", "box", "table", "floor"},
     size : {"small", "large"},
     color : {"red", "white"}]

\* the calls of checkPhysics: an identifier against itself and against
\* another identifier, where each identifier has one of the definitions or
\* none (state.objects[id] is undefined for the floor)
PhysicsCalls ==
    {[srcId |-> "e", srcObj |-> o, relation |-> r, dstId |-> "e", dstObj |-> o] :
        o \in ObjectDefinitions \cup {UNDEFINED}, r \in Relations}
    \cup
    {[srcId |-> "e", srcObj |-> o, relation |-> r, dstId |-> "f", dstObj |-> q] :
        o \in ObjectDefinitions \cup {UNDEFINED}, r \in Relations,
        q \in ObjectDefinitions \cup {UNDEFINED}}

InitPhysics ==
    /\ checked \in PhysicsCalls
    /\ legal = NULL
    /\ pc = "checkPhysics"
    /\ block = NULL /\ parses = << >> /\ currentState = NULL /\ interpretations = << >>
    /\ errors = << >> /\ idx = 1 /\ outcome = Unset
    /\ NoPlanner

\* the call returns or throws
CheckPhysics ==
    /\ pc = "checkPhysics"
    /\ legal' = checkPhysics(checked.srcId, checked.srcObj, checked.relation,
                             checked.dstId, checked.dstObj)
    /\ pc' = IF Threw(legal') THEN "thrown" ELSE "returned"
    /\ UNCHANGED <<container, graph, mem, searchVars, planVars, block, parses, currentState, interpretations,
                   checked>>

NextPhysics == CheckPhysics

PhysicsSpec == InitPhysics /\ [][NextPhysics]_vars

\* a call with relation "ontop" and a defined destination has ended
OntopEnded ==
    pc \in {"returned", "thrown"} /\ checked.relation = "ontop" /\ checked.dstObj # UNDEFINED

\* C20 as stated: with relation "ontop" and a defined destination checkPhysics
\* returns false exactly when source and destination are the same object, or
\* the destination is a box, or the source is large and the destination
\* small, or the source is a ball, or the source is a small box and the
\* destination a small pyramid or small plank, or the source is a large box
\* and the destination a large pyramid; in every other case it returns true.
C20_OntopRules ==
    OntopEnded =>
        legal = Return(~(\/ checked.srcId = checked.dstId
                         \/ checked.dstObj.form = "box"
                         \/ checked.srcObj.size = "large" /\ checked.dstObj.size = "small"
                         \/ checked.srcObj.form = "ball"
                         \/ /\ checked.srcObj.size = "small" /\ checked.srcObj.form = "box"
                            /\ checked.dstObj.size = "small"
                            /\ checked.dstObj.form \in {"pyramid", "plank"}
                         \/ /\ checked.srcObj.size = "large" /\ checked.srcObj.form = "box"
                            /\ checked.dstObj.size = "large" /\ checked.dstObj.form = "pyramid"))

\* C20 amended: the same, except that a source of form "floor" is refused
\* too, a ball is refused only on a destination whose form is not "floor",
\* and a call whose source has no definition and is not the destination
\* throws a TypeError; in every other case checkPhysics returns true.
C20_OntopRulesWithFloor ==
    OntopEnded =>
        legal = IF checked.srcId # checked.dstId /\ checked.srcObj = UNDEFINED THEN TypeError
                ELSE Return(~(\/ checked.srcId = checked.dstId
                              \/ checked.srcObj.form = "floor"
                              \/ checked.dstObj.form = "box"
                              \/ checked.srcObj.size = "large" /\ checked.dstObj.size = "small"
                              \/ checked.srcObj.form = "ball" /\ checked.dstObj.form # "floor"
                              \/ /\ checked.srcObj.size = "small" /\ checked.srcObj.form = "box"
                                 /\ checked.dstObj.size = "small"
                                 /\ checked.dstObj.form \in {"pyramid", "plank"}
                              \/ /\ checked.srcObj.size = "large" /\ checked.srcObj.form = "box"
                                 /\ checked.dstObj.size = "large"
                                 /\ checked.dstObj.form = "pyramid"))

\* a small box was refused on top of a small plank
C20_Witness ==
    /\ OntopEnded
    /\ checked.srcObj.form = "box" /\ checked.srcObj.size = "small"
    /\ checked.dstObj.form = "plank" /\ checked.dstObj.size = "small"
    /\ legal = Return(FALSE)

\* C21: no formula the interpretCommand of either block returns holds a
\* literal beside(x, floor).
C21_NoBesideFloor ==
    InterpretingAny =>
        \E r \in {InterpretationOfBlock} :
            ~Threw(r) =>
                \A k \in 1..Len(r.val) : \A j \in 1..Len(r.val[k]) :
                    ~(r.val[k][j].relation = "beside" /\ r.val[k][j].args[2] = "floor")

(***************************************************************************)
(* goal and heuristics as functions of a formula and a planning node       *)
(***************************************************************************)
GoalCols == 2

\* the objects of the nodes
GoalIds == {"a", "b", "d"}

\* the identifiers the literals name
GoalArgs == {"a", "b"}

\* the literals: holding(x), r(x, y) and r(x, floor) for every relation r
GoalLiterals ==
    {Literal("holding", <<x>>) : x \in GoalArgs}
    \cup {Literal(r, q) : r \in Relations, q \in {q \in GoalArgs \X GoalArgs : q[1] # q[2]}}
    \cup {Literal(r, <<x, "floor">>) : r \in Relations, x \in GoalArgs}

\* the formulas: one literal, a conjunction of two literals, a disjunction of two literals
GoalFormulas ==
    {<< <<l>> >> : l \in GoalLiterals}
    \cup {<< <<l1, l2>> >> : l1 \in GoalLiterals, l2 \in GoalLiterals}
    \cup {<< <<l1>>, <<l2>> >> : l1 \in GoalLiterals, l2 \in GoalLiterals}

\* the state in which the goal test or the heuristic is called: a formula
\* and a node over the stacks of a world
InitGoal ==
    /\ \E w \in Worlds(GoalIds, GoalCols), f \in GoalFormulas :
          /\ mem = MemOf(w.stacks)
          /\ node = PNode(Len(w.stacks) + 1, w.holding, w.arm, NULL)
          /\ graph = [kind |-> "P", objects |-> Catalog, formula |-> f, timeout |-> 5]
    /\ container = NULL
    /\ result = Unset
    /\ pc = "goal"
    /\ start = Unset /\ queue = << >> /\ costs = EmptyDictionary /\ paths = EmptyDictionary
    /\ world = NULL /\ input = NULL /\ interps = << >> /\ idx = 1
    /\ plans = << >> /\ errors = << >> /\ outcome = Unset
    /\ NoInterpreter

\* goal(interpretation, node) returns
GoalReturns ==
    /\ pc = "goal"
    /\ result' = goal(graph.formula, mem, node)
    /\ pc' = "tested"
    /\ UNCHANGED <<container, graph, mem, start, queue, costs, paths, node, planVars, interpVars>>

\* heuristics(ors, node) returns
HeuristicsReturns ==
    /\ pc = "goal"
    /\ result' = heuristics(graph.formula, mem, node)
    /\ pc' = "estimated"
    /\ UNCHANGED <<container, graph, mem, start, queue, costs, paths, node, planVars, interpVars>>

NextGoal == GoalReturns \/ HeuristicsReturns

GoalSpec == InitGoal /\ [][NextGoal]_vars

(***************************************************************************)
(* Properties of goal and heuristics                                       *)
(***************************************************************************)
\* the stacks of the node the function was called with
NodeStacks == StacksVal(mem, node.stacks)

\* the column of the object x, counted from 0, and its height in that column
ColumnOf(x) == CHOOSE i \in 0..Len(NodeStacks) - 1 :
                   \E j \in 1..Len(NodeStacks[i + 1]) : NodeStacks[i + 1][j] = x

HeightOf(x) == CHOOSE j \in 0..Len(NodeStacks[ColumnOf(x) + 1]) - 1 :
                   NodeStacks[ColumnOf(x) + 1][j + 1] = x

\* the literals of a relation between two arguments
Positional(l) == l.relation \in Relations

\* the table of C22: against the floor it has a row for ontop and a row for
\* above, and no other
TableHolds(l) ==
    IF l.args[2] = "floor"
    THEN CASE l.relation = "ontop" -> HeightOf(l.args[1]) = 0
           [] l.relation = "above" -> TRUE
           [] OTHER -> FALSE
    ELSE \E x1 \in {ColumnOf(l.args[1])}, y1 \in {HeightOf(l.args[1])},
            x2 \in {ColumnOf(l.args[2])}, y2 \in {HeightOf(l.args[2])} :
            CASE l.relation = "leftof" -> x1 < x2
              [] l.relation = "rightof" -> x1 > x2
              [] l.relation = "above" -> x1 = x2 /\ y1 > y2
              [] l.relation = "under" -> x1 = x2 /\ y1 < y2
              [] l.relation = "beside" -> x1 - x2 = 1 \/ x2 - x1 = 1
              [] l.relation \in {"ontop", "inside"} -> x1 = x2 /\ y1 = y2 + 1

\* C22: for a formula of literals between two arguments, none of which is
\* held, goal returns true exactly when some conjunction has every literal
\* true under the table (leftof: smaller column; rightof: larger column;
\* above: same column, greater height; under: same column, smaller height;
\* beside: column distance 1; ontop and inside: same column, height one
\* more; ontop the floor: height 0; above the floor: always).
C22_GoalTable ==
    (/\ pc = "tested"
     /\ \A i \in 1..Len(graph.formula) : \A j \in 1..Len(graph.formula[i]) :
           /\ Positional(graph.formula[i][j])
           /\ node.holding \notin {graph.formula[i][j].args[1], graph.formula[i][j].args[2]})
    => (result <=> \E i \in 1..Len(graph.formula) :
                      \A j \in 1..Len(graph.formula[i]) : TableHolds(graph.formula[i][j]))

\* the length of the shortest sequence of legal robot actions from a state of
\* S to a state that satisfies f, S being the states reached within k actions;
\* Infinity when no such state can be reached
RECURSIVE Distance(_, _, _, _)
Distance(objects, S, f, k) ==
    IF \E s \in S : Satisfied(f, s) THEN k
    ELSE CHOOSE r \in
             {IF N = S THEN Infinity ELSE Distance(objects, N, f, k + 1) :
              N \in {S \cup {Apply(q[1], q[2]) :
                             q \in {q \in S \X {"l", "r", "p", "d"} : Legal(objects, q[1], q[2])}}}} :
             TRUE

\* C23: for a formula of one conjunction the value of heuristics at a node is
\* at most the length of the shortest sequence of actions from the node to a
\* state that satisfies the formula; it is 0 where the formula is satisfied.
C23_HeuristicAdmissible ==
    pc = "estimated" /\ Len(graph.formula) = 1 =>
        result <= Distance(graph.objects, {StateOf(NodeStacks, node.holding, node.arm)},
                           graph.formula, 0)

\* C24: for a formula the start world satisfies Planner.plan returns the
\* plan ["That is already true!"] and records no error; every other plan it
\* returns is a non-empty sequence of the actions "l", "r", "p" and "d".
C24_AlreadyTrueNotice ==
    /\ \A k \in 1..Len(plans) :
          IF Satisfied(plans[k].interpretation, input)
          THEN plans[k].plan = << "That is already true!" >>
          ELSE /\ Len(plans[k].plan) > 0
               /\ \A i \in 1..Len(plans[k].plan) : plans[k].plan[i] \in {"l", "r", "p", "d"}
    /\ pc = "done" /\ Len(interps) > 0 =>
          /\ Len(errors) <= Cardinality({i \in 1..Len(interps) : ~Satisfied(interps[i], input)})
          /\ (\E i \in 1..Len(interps) : Satisfied(interps[i], input))
                => DOMAIN outcome = {"returned"}

\* Planner.plan returned the notice for a formula of two literals that the
\* start world satisfies
C24_Witness ==
    /\ pc = "done"
    /\ DOMAIN outcome = {"returned"}
    /\ Len(interps[1][1]) = 2
    /\ Satisfied(interps[1], input)
    /\ outcome.returned[1].plan = << "That is already true!" >>

\* C25: the cost map and the predecessor map of a search over the planning
\* graph never hold two entries for nodes with equal stacks, holding and arm.
C25_OneEntryPerState ==
    \A d \in {costs, paths} :
        \A k1 \in DOMAIN d, k2 \in DOMAIN d :
            (k1.stacks = k2.stacks /\ k1.holding = k2.holding /\ k1.arm = k2.arm) => k1 = k2

\* the literal l is not a holding literal and names the held object
NamesHeld(l) ==
    /\ l.relation # "holding"
    /\ node.holding \in {l.args[1], l.args[2]}

\* C26: while the arm holds h, a literal of another relation than holding
\* that has h as an argument is false in the goal test, so goal returns false
\* when every conjunction has such a literal; a formula of holding literals
\* is true exactly when some conjunction names h in all of them.
C26_HeldObjectLiterals ==
    pc = "tested" /\ node.holding # NULL =>
        /\ (\A i \in 1..Len(graph.formula) :
               \E j \in 1..Len(graph.formula[i]) : NamesHeld(graph.formula[i][j]))
              => result = FALSE
        /\ (\A i \in 1..Len(graph.formula) :
               \A j \in 1..Len(graph.formula[i]) : graph.formula[i][j].relation = "holding")
              => (result <=> \E i \in 1..Len(graph.formula) :
                                \A j \in 1..Len(graph.formula[i]) :
                                    graph.formula[i][j].args[1] = node.holding)

\* goal returned false for "a above the floor" while the arm held a
C26_Witness ==
    /\ pc = "tested" /\ result = FALSE
    /\ node.holding = "a"
    /\ graph.formula = << << Literal("above", << "a", "floor" >>) >> >>

\* the static mismatches of a move command that C27 lists
StaticMismatch(cmd) ==
    \E relation \in {cmd.location.relation}, dstForm \in {described(cmd.location.entity).form} :
        \/ relation = "inside" /\ dstForm # "box"
        \/ relation = "ontop" /\ dstForm = "ball"
        \/ /\ relation \in {"inside", "ontop"}
           /\ \/ cmd.entity.quantifier \in {"the", "any"} /\ cmd.location.entity.quantifier = "all"
              \/ cmd.entity.quantifier = "all" /\ cmd.location.entity.quantifier = "the"

\* the errors of resolving entities and of combining subjects and destinations
ResolutionErrors ==
    {<< "\"the\" is ambigous" >>, << "unable to interpret" >>, << "TypeError" >>}

\* C27: a move command with "inside" and a destination form other than box,
\* with "ontop" and a ball as destination form, with "inside" or "ontop" and
\* a "the" or "any" subject against an "all" destination, or an "all" subject
\* against a "the" destination, throws an error that is the same in every
\* world and is none of the errors of resolving or combining entities.
C27_StaticChecksFirst ==
    Interpreting /\ Cmd.command = "move" /\ StaticMismatch(Cmd) =>
        \E r \in {Interpretation} :
            /\ Threw(r)
            /\ r.err \notin ResolutionErrors
            /\ \A w \in InterpWorlds : interpretCommand(Cmd, w) = r

\* "move the object on top of the ball" was refused for the ball as
\* destination in a world where "the object" is ambiguous
C27_Witness ==
    /\ pc = "interpret" /\ block = "first" /\ idx = 2
    /\ parses[1].parse.command = "move"
    /\ parses[1].parse.location.relation = "ontop"
    /\ errors = << << "you can not put objects on balls" >> >>
    /\ findEntities(parses[1].parse.entity, currentState) = Throw(<< "\"the\" is ambigous" >>)

(***************************************************************************)
(* What rests on what in the planning states                               *)
(***************************************************************************)
\* the pairs <<upper, lower>> of objects of which the first rests directly on
\* the second in the columns of stacks
RestingPairs(stacks) ==
    {<< stacks[q[1]][q[2]], stacks[q[1]][q[2] - 1] >> :
        q \in {q \in (1..Len(stacks)) \X (2..Cardinality(DOMAIN Catalog)) :
                  q[2] <= Len(stacks[q[1]])}}

\* no large object rests directly on a small one and no ball rests directly
\* on an object that is not a box
SizesAndBallsRespected(stacks) ==
    \A q \in RestingPairs(stacks) :
        /\ ~(Catalog[q[1]].size = "large" /\ Catalog[q[2]].size = "small")
        /\ ~(Catalog[q[1]].form = "ball" /\ Catalog[q[2]].form # "box")

\* C28: from a planning state in which no large object rests directly on a
\* small one and no ball rests directly on a non-box object, every l, r, p
\* and d edge leads to a state in which the same holds, so the states
\* reached from such a start world all have the property.
C28_SizesAndBallsPreserved ==
    pc = "walk" /\ SizesAndBallsRespected(Here.stacks) =>
        \A e \in Offered : SizesAndBallsRespected(e.to.stacks)

\* an object was dropped in a state in which the ball a rests in the box b
C28_Witness ==
    /\ pc = "walk" /\ SizesAndBallsRespected(Here.stacks)
    /\ node.action = "d"
    /\ << "a", "b" >> \in RestingPairs(Here.stacks)

\* nothing rests directly on a ball
NothingOnBalls(stacks) == \A q \in RestingPairs(stacks) : Catalog[q[2]].form # "ball"

\* C29: balls support nothing.  From a planning state in which nothing rests
\* on a ball every l, r, p and d edge leads to a state in which nothing rests
\* on a ball, and no formula the interpretCommand of either block returns
\* holds a literal ontop(x, y) in which y is a ball.
C29_BallsSupportNothing ==
    /\ pc = "walk" /\ NothingOnBalls(Here.stacks) =>
          \A e \in Offered : NothingOnBalls(e.to.stacks)
    /\ InterpretingAny =>
          \E r \in {InterpretationOfBlock} :
              ~Threw(r) =>
                  \A k \in 1..Len(r.val) : \A j \in 1..Len(r.val[k]) :
                      ~(/\ r.val[k][j].relation = "ontop"
                        /\ Lookup(currentState.objects, r.val[k][j].args[2]).form = "ball")

====
